---- MODULE Spec2Model ----
(***************************************************************************)
(* Model of companyfinder_py: the company-name extraction pipeline of      *)
(* CompanyNameExtractor (src/company_name_extractor.py), the batch tools   *)
(* that run it over a list of domains (src/run_extractor.py,               *)
(* src/test_extractor.py, src/simplified_analyzer.py), and the domain      *)
(* store (src/mock_db.py, src/domain_api.py).                              *)
(*                                                                         *)
(* Python strings are modelled as sequences of one-character strings, so   *)
(* that lower(), strip(), endswith(), re.sub() and re.finditer() are       *)
(* computed character by character.                                        *)
(***************************************************************************)
EXTENDS Integers, Sequences, FiniteSets, TLC

(***************************************************************************)
(* Characters and character classes.                                       *)
(***************************************************************************)
LowerAlpha == <<"a","b","c","d","e","f","g","h","i","j","k","l","m",
                "n","o","p","q","r","s","t","u","v","w","x","y","z">>
UpperAlpha == <<"A","B","C","D","E","F","G","H","I","J","K","L","M",
                "N","O","P","Q","R","S","T","U","V","W","X","Y","Z">>
Range(f) == {f[i] : i \in DOMAIN f}
LowerSet == Range(LowerAlpha)
UpperSet == Range(UpperAlpha)
\* a-z and A-Z
AsciiLetters == LowerSet \cup UpperSet
\* 0-9
AsciiDigits == {"0","1","2","3","4","5","6","7","8","9"}

\* The alphabet of the model is ASCII and the characters named below: all the
\* whitespace of Unicode, two of its sets of decimal digits, and the letters
\* that str.lower() and re.IGNORECASE treat in a way of their own.  A
\* character outside Latin-1, or one that cannot be seen, is written as its
\* name in parentheses: one character of the text each.  The classes below
\* say nothing of a character outside this alphabet.
\* the two non-ASCII characters of the source's patterns
CopyrightSign == "(copyright sign)"
EnDash == "(en dash)"
\* the whitespace of Unicode besides space, \t, \n, \f and \r
LineTabulation == "(line tabulation)"  \* U+000B
InformationSeparatorFour == "(information separator four)"  \* U+001C
InformationSeparatorThree == "(information separator three)"  \* U+001D
InformationSeparatorTwo == "(information separator two)"  \* U+001E
InformationSeparatorOne == "(information separator one)"  \* U+001F
NextLine == "(next line)"  \* U+0085
NoBreakSpace == "(no-break space)"  \* U+00A0
OghamSpaceMark == "(ogham space mark)"  \* U+1680
EnQuad == "(en quad)"  \* U+2000
EmQuad == "(em quad)"  \* U+2001
EnSpace == "(en space)"  \* U+2002
EmSpace == "(em space)"  \* U+2003
ThreePerEmSpace == "(three-per-em space)"  \* U+2004
FourPerEmSpace == "(four-per-em space)"  \* U+2005
SixPerEmSpace == "(six-per-em space)"  \* U+2006
FigureSpace == "(figure space)"  \* U+2007
PunctuationSpace == "(punctuation space)"  \* U+2008
ThinSpace == "(thin space)"  \* U+2009
HairSpace == "(hair space)"  \* U+200A
LineSeparator == "(line separator)"  \* U+2028
ParagraphSeparator == "(paragraph separator)"  \* U+2029
NarrowNoBreakSpace == "(narrow no-break space)"  \* U+202F
MediumMathematicalSpace == "(medium mathematical space)"  \* U+205F
IdeographicSpace == "(ideographic space)"  \* U+3000
\* decimal digits outside ASCII: the Arabic-Indic and the fullwidth digits
ArabicIndicDigitZero == "(arabic-indic digit zero)"  \* U+0660
ArabicIndicDigitOne == "(arabic-indic digit one)"  \* U+0661
ArabicIndicDigitTwo == "(arabic-indic digit two)"  \* U+0662
ArabicIndicDigitThree == "(arabic-indic digit three)"  \* U+0663
ArabicIndicDigitFour == "(arabic-indic digit four)"  \* U+0664
ArabicIndicDigitFive == "(arabic-indic digit five)"  \* U+0665
ArabicIndicDigitSix == "(arabic-indic digit six)"  \* U+0666
ArabicIndicDigitSeven == "(arabic-indic digit seven)"  \* U+0667
ArabicIndicDigitEight == "(arabic-indic digit eight)"  \* U+0668
ArabicIndicDigitNine == "(arabic-indic digit nine)"  \* U+0669
FullwidthDigitZero == "(fullwidth digit zero)"  \* U+FF10
FullwidthDigitOne == "(fullwidth digit one)"  \* U+FF11
FullwidthDigitTwo == "(fullwidth digit two)"  \* U+FF12
FullwidthDigitThree == "(fullwidth digit three)"  \* U+FF13
FullwidthDigitFour == "(fullwidth digit four)"  \* U+FF14
FullwidthDigitFive == "(fullwidth digit five)"  \* U+FF15
FullwidthDigitSix == "(fullwidth digit six)"  \* U+FF16
FullwidthDigitSeven == "(fullwidth digit seven)"  \* U+FF17
FullwidthDigitEight == "(fullwidth digit eight)"  \* U+FF18
FullwidthDigitNine == "(fullwidth digit nine)"  \* U+FF19
\* letters outside Latin-1, and the combining dot that str.lower() gives
LatinCapitalLetterIWithDotAbove == "(latin capital letter i with dot above)"  \* U+0130
LatinSmallLetterDotlessI == "(latin small letter dotless i)"  \* U+0131
LatinSmallLetterLongS == "(latin small letter long s)"  \* U+017F
GreekCapitalLetterSigma == "(greek capital letter sigma)"  \* U+03A3
GreekSmallLetterSigma == "(greek small letter sigma)"  \* U+03C3
GreekSmallLetterFinalSigma == "(greek small letter final sigma)"  \* U+03C2
KelvinSign == "(kelvin sign)"  \* U+212A
CombiningDotAbove == "(combining dot above)"  \* U+0307
GraveAccent == "(grave accent)"  \* U+0060
\* the character no tag name holds
Null == "(null)"  \* U+0000

\* str.isspace(), and \s of the re module
Space ==
    { " ", "\t", "\n", "\f", "\r", LineTabulation, InformationSeparatorFour,
      InformationSeparatorThree, InformationSeparatorTwo,
      InformationSeparatorOne, NextLine, NoBreakSpace, OghamSpaceMark,
      EnQuad, EmQuad, EnSpace, EmSpace, ThreePerEmSpace, FourPerEmSpace,
      SixPerEmSpace, FigureSpace, PunctuationSpace, ThinSpace, HairSpace,
      LineSeparator, ParagraphSeparator, NarrowNoBreakSpace,
      MediumMathematicalSpace, IdeographicSpace }
\* str.isdecimal(), and \d of the re module
Digits ==
    AsciiDigits \cup
    { ArabicIndicDigitZero, ArabicIndicDigitOne, ArabicIndicDigitTwo,
      ArabicIndicDigitThree, ArabicIndicDigitFour, ArabicIndicDigitFive,
      ArabicIndicDigitSix, ArabicIndicDigitSeven, ArabicIndicDigitEight,
      ArabicIndicDigitNine, FullwidthDigitZero, FullwidthDigitOne,
      FullwidthDigitTwo, FullwidthDigitThree, FullwidthDigitFour,
      FullwidthDigitFive, FullwidthDigitSix, FullwidthDigitSeven,
      FullwidthDigitEight, FullwidthDigitNine }
\* str.isalpha()
Letters ==
    AsciiLetters \cup
    { "é", "É", "ß", LatinCapitalLetterIWithDotAbove,
      LatinSmallLetterDotlessI, LatinSmallLetterLongS,
      GreekCapitalLetterSigma, GreekSmallLetterSigma,
      GreekSmallLetterFinalSigma, KelvinSign }
\* \w of the re module: str.isalnum() or '_'
WordChars == Letters \cup Digits \cup {"²", "_"}

\* the character re.IGNORECASE compares in place of c: its lower-case letter,
\* with dotless i and I with dot as i, the long s as s, and the final sigma as
\* sigma
Fold(c) ==
    CASE c \in UpperSet -> LowerAlpha[CHOOSE i \in DOMAIN UpperAlpha : UpperAlpha[i] = c]
      [] c = "É" -> "é"
      [] c \in {LatinCapitalLetterIWithDotAbove, LatinSmallLetterDotlessI} -> "i"
      [] c = LatinSmallLetterLongS -> "s"
      [] c = KelvinSign -> "k"
      [] c \in {GreekCapitalLetterSigma, GreekSmallLetterFinalSigma} ->
             GreekSmallLetterSigma
      [] OTHER -> c
\* [A-Z] and [a-z] under re.IGNORECASE
IgnoreCaseLetters ==
    AsciiLetters \cup {LatinCapitalLetterIWithDotAbove, LatinSmallLetterDotlessI,
                       LatinSmallLetterLongS, KelvinSign}

\* c.lower() of the one-character string c: a string
LowerCh(c) ==
    CASE c \in UpperSet -> <<Fold(c)>>
      [] c = "É" -> <<"é">>
      [] c = KelvinSign -> <<"k">>
      [] c = GreekCapitalLetterSigma -> <<GreekSmallLetterSigma>>
      [] c = LatinCapitalLetterIWithDotAbove -> <<"i", CombiningDotAbove>>
      [] OTHER -> <<c>>
\* the characters with a letter case, and those a letter case looks through
Cased ==
    AsciiLetters \cup {"é", "É", "ß", LatinCapitalLetterIWithDotAbove,
                       LatinSmallLetterDotlessI, LatinSmallLetterLongS,
                       GreekCapitalLetterSigma, GreekSmallLetterSigma,
                       GreekSmallLetterFinalSigma, KelvinSign}
CaseIgnorable == {"'", ".", ":", "^", GraveAccent, CombiningDotAbove}
\* whether the capital sigma at s[i] ends a word: a cased character stands
\* before it and none after it, case-ignorable characters left aside
IsFinalSigma(s, i) ==
    /\ \E j \in 1..(i - 1) :
          /\ s[j] \in Cased \ CaseIgnorable
          /\ \A k \in (j + 1)..(i - 1) : s[k] \in CaseIgnorable
    /\ ~\E j \in (i + 1)..Len(s) :
          /\ s[j] \in Cased \ CaseIgnorable
          /\ \A k \in (i + 1)..(j - 1) : s[k] \in CaseIgnorable
\* s.lower() from position i on
RECURSIVE LowerFrom(_, _)
LowerFrom(s, i) ==
    IF i > Len(s) THEN <<>>
    ELSE (IF s[i] = GreekCapitalLetterSigma /\ IsFinalSigma(s, i)
          THEN <<GreekSmallLetterFinalSigma>>
          ELSE LowerCh(s[i])) \o LowerFrom(s, i + 1)
\* str.lower()
Lower(s) == LowerFrom(s, 1)
\* c.isalpha()
IsAlpha(c) == c \in Letters

(***************************************************************************)
(* String operations of Python used by the source.                         *)
(***************************************************************************)
Max(a, b) == IF a >= b THEN a ELSE b
Min(a, b) == IF a <= b THEN a ELSE b
\* s[a:b] with 1-based inclusive bounds; empty when a > b
Sub(s, a, b) == IF a > b THEN <<>> ELSE SubSeq(s, a, b)
\* s.startswith(p)
StartsWith(s, p) == Len(p) <= Len(s) /\ Sub(s, 1, Len(p)) = p
\* s.endswith(p)
EndsWith(s, p) == Len(p) <= Len(s) /\ Sub(s, Len(s) - Len(p) + 1, Len(s)) = p
\* p in s
Contains(s, p) == \E i \in 1..(Len(s) - Len(p) + 1) : Sub(s, i, i + Len(p) - 1) = p
\* s.lstrip(chars), s.rstrip(chars)
LStripSet(s, S) ==
    LET first == {i \in DOMAIN s : s[i] \notin S}
    IN IF first = {} THEN <<>>
       ELSE Sub(s, CHOOSE i \in first : \A j \in first : i <= j, Len(s))
RStripSet(s, S) ==
    LET last == {i \in DOMAIN s : s[i] \notin S}
    IN IF last = {} THEN <<>>
       ELSE Sub(s, 1, CHOOSE i \in last : \A j \in last : i >= j)
\* s.strip()
Strip(s) == RStripSet(LStripSet(s, Space), Space)
\* s.split(c)[0]
SplitFirst(s, c) ==
    LET at == {i \in DOMAIN s : s[i] = c}
    IN IF at = {} THEN s
       ELSE Sub(s, 1, (CHOOSE i \in at : \A j \in at : i <= j) - 1)
\* re.sub(r'\s+', ' ', s): the first character of every whitespace run stays, as ' '
CollapseSpace(s) ==
    LET at == [i \in DOMAIN s |-> <<i, s[i]>>]
        kept == SelectSeq(at, LAMBDA x : x[2] \notin Space \/ x[1] = 1
                                          \/ s[Max(x[1] - 1, 1)] \notin Space)
    IN [j \in DOMAIN kept |-> IF kept[j][2] \in Space THEN " " ELSE kept[j][2]]
\* re.sub(r'[^\w\s]', '', s)
RemovePunct(s) == SelectSeq(s, LAMBDA c : c \in WordChars \cup Space)
\* any(c.isalpha() for c in s)
HasLetter(s) == \E i \in DOMAIN s : IsAlpha(s[i])

(***************************************************************************)
(* A backtracking matcher with the semantics of Python's re module for the *)
(* constructs the source's patterns use: character sets, concatenation,    *)
(* ordered alternation, greedy and lazy bounded repetition, and one        *)
(* capturing group.  A pattern is a tree of records.                       *)
(***************************************************************************)
\* [S]: one character of S
Set(S) == [t |-> "set", s |-> S]
\* [^S]: one character not in S ('.' under re.DOTALL is NotSet({}))
NotSet(S) == [t |-> "nset", s |-> S]
Cat(rs) == [t |-> "cat", rs |-> rs]
Alt(rs) == [t |-> "alt", rs |-> rs]
\* r{lo,hi}, greedy
Rep(r, lo, hi) == [t |-> "rep", r |-> r, lo |-> lo, hi |-> hi, ub |-> FALSE, g |-> TRUE]
\* r* and r+, greedy; r*?, lazy; r?
Star(r) == [t |-> "rep", r |-> r, lo |-> 0, hi |-> 0, ub |-> TRUE, g |-> TRUE]
Plus(r) == [t |-> "rep", r |-> r, lo |-> 1, hi |-> 0, ub |-> TRUE, g |-> TRUE]
LazyStar(r) == [t |-> "rep", r |-> r, lo |-> 0, hi |-> 0, ub |-> TRUE, g |-> FALSE]
Opt(r) == Rep(r, 0, 1)
\* (r): capturing group 1
Group(r) == [t |-> "grp", r |-> r]
GroupEnd == [t |-> "gend"]
\* a literal word, matched under re.IGNORECASE
Lit(w) == [t |-> "lit", w |-> w]
\* (?![S]): no character of S follows; (?<=[S]): a character of S precedes
NotAhead(S) == [t |-> "nahead", s |-> S]
Behind(S) == [t |-> "behind", s |-> S]

\* result of a failed match
NoMatch == <<0, 0, 0>>
MaxOf(S) == CHOOSE x \in S : \A y \in S : x >= y
MinOf(S) == CHOOSE x \in S : \A y \in S : x <= y

\* Match the patterns of the stack st, in sequence, against s from position i.
\* Returns <<end, group start, group end>> of the first match in backtracking
\* order (end is the position after the match), or NoMatch.
RECURSIVE Match(_, _, _, _, _)
Match(s, st, i, gs, ge) ==
    IF Len(st) = 0 THEN <<i, gs, ge>>
    ELSE
      LET h == Head(st)
          rest == Tail(st)
      IN
      CASE h.t = "set" ->
             IF i <= Len(s) /\ s[i] \in h.s
             THEN Match(s, rest, i + 1, gs, ge) ELSE NoMatch
        [] h.t = "nset" ->
             IF i <= Len(s) /\ s[i] \notin h.s
             THEN Match(s, rest, i + 1, gs, ge) ELSE NoMatch
        [] h.t = "lit" ->
             IF /\ i + Len(h.w) - 1 <= Len(s)
                /\ \A j \in DOMAIN h.w : Fold(s[i + j - 1]) = Fold(h.w[j])
             THEN Match(s, rest, i + Len(h.w), gs, ge) ELSE NoMatch
        [] h.t = "nahead" ->
             IF i <= Len(s) /\ s[i] \in h.s
             THEN NoMatch ELSE Match(s, rest, i, gs, ge)
        [] h.t = "behind" ->
             IF i > 1 /\ s[i - 1] \in h.s
             THEN Match(s, rest, i, gs, ge) ELSE NoMatch
        [] h.t = "cat" -> Match(s, h.rs \o rest, i, gs, ge)
        [] h.t = "alt" ->
             IF Len(h.rs) = 0 THEN NoMatch
             ELSE LET first == Match(s, <<Head(h.rs)>> \o rest, i, gs, ge)
                  IN IF first # NoMatch THEN first
                     ELSE Match(s, <<Alt(Tail(h.rs))>> \o rest, i, gs, ge)
        [] h.t = "rep" /\ h.r.t \in {"set", "nset"} ->
             \* a repeated character set: the run of fitting characters at i is
             \* n long; a greedy repetition takes the longest part of it after
             \* which the rest matches, a lazy one the shortest
             LET Fits(c) == IF h.r.t = "set" THEN c \in h.r.s ELSE c \notin h.r.s
                 limit == IF h.ub THEN Len(s) - i + 1 ELSE Min(h.hi, Len(s) - i + 1)
                 n == MaxOf({k \in 0..limit : \A j \in i..(i + k - 1) : Fits(s[j])})
                 after == [k \in h.lo..n |-> Match(s, rest, i + k, gs, ge)]
                 ok == {k \in h.lo..n : after[k] # NoMatch}
             IN IF ok = {} THEN NoMatch
                ELSE IF h.g THEN after[MaxOf(ok)] ELSE after[MinOf(ok)]
        [] h.t = "rep" /\ h.r.t \notin {"set", "nset"} ->
             LET again == [h EXCEPT !.lo = Max(0, h.lo - 1), !.hi = h.hi - 1]
                 more == IF h.ub \/ h.hi > 0
                         THEN Match(s, <<h.r, again>> \o rest, i, gs, ge)
                         ELSE NoMatch
                 stop == IF h.lo <= 0 THEN Match(s, rest, i, gs, ge) ELSE NoMatch
             IN IF h.g
                THEN (IF more # NoMatch THEN more ELSE stop)
                ELSE (IF stop # NoMatch THEN stop ELSE more)
        [] h.t = "grp" -> Match(s, <<h.r, GroupEnd>> \o rest, i, i, ge)
        [] h.t = "gend" -> Match(s, rest, i, gs, i)

\* re.finditer(p, s): group(1) of every non-overlapping match, scanning from pos
RECURSIVE FindIterFrom(_, _, _)
FindIterFrom(p, s, pos) ==
    LET found == [q \in pos..Len(s) |-> Match(s, <<p>>, q, 0, 0)]
        starts == {q \in pos..Len(s) : found[q] # NoMatch}
    IN IF starts = {} THEN <<>>
       ELSE LET m == found[MinOf(starts)]
            IN <<Sub(s, m[2], m[3] - 1)>> \o FindIterFrom(p, s, Max(m[1], MinOf(starts) + 1))
FindIter(p, s) == FindIterFrom(p, s, 1)

(***************************************************************************)
(* CompanyNameExtractor.__init__: the pattern rules.                       *)
(***************************************************************************)
Ws0 == Star(Set(Space))
Ws1 == Plus(Set(Space))
Digit == Set(Digits)
\* [A-Z] under re.IGNORECASE
Cap == Set(IgnoreCaseLetters)
\* [a-zA-Z0-9\s\&\-'.,]
NameChar ==
    Set(IgnoreCaseLetters \cup AsciiDigits \cup Space \cup {"&", "-", "'", ".", ","})
\* (?:Ltd|Limited|LLC|Inc|Corp|Corporation|GmbH|B\.V\.|Pty\s+Ltd|S\.A\.)
LegalSuffix ==
    Alt(<< Lit(<<"L","t","d">>),
           Lit(<<"L","i","m","i","t","e","d">>),
           Lit(<<"L","L","C">>),
           Lit(<<"I","n","c">>),
           Lit(<<"C","o","r","p">>),
           Lit(<<"C","o","r","p","o","r","a","t","i","o","n">>),
           Lit(<<"G","m","b","H">>),
           Lit(<<"B",".","V",".">>),
           Cat(<<Lit(<<"P","t","y">>), Ws1, Lit(<<"L","t","d">>)>>),
           Lit(<<"S",".","A",".">>) >>)
\* ([A-Z][a-zA-Z0-9\s\&\-'.,]+(?:Ltd|...))
SuffixedName == Group(Cat(<<Cap, Plus(NameChar), LegalSuffix>>))
\* ([A-Z][a-zA-Z0-9\s\&\-'.,]+)
OpenName == Group(Cat(<<Cap, Plus(NameChar)>>))
\* (?:(c)-sign|copyright|\(c\))\s*(?:20\d{2}(?:-20\d{2})?)\s+
Year == Cat(<<Lit(<<"2","0">>), Digit, Digit>>)
CopyrightYear ==
    Cat(<< Alt(<< Lit(<<CopyrightSign>>),
                  Lit(<<"c","o","p","y","r","i","g","h","t">>),
                  Lit(<<"(","c",")">>) >>),
           Ws0, Year, Opt(Cat(<<Lit(<<"-">>), Year>>)), Ws1 >>)
\* (?:Number|No)\.?:?\s+\d+
NumberNo ==
    Cat(<< Alt(<<Lit(<<"N","u","m","b","e","r">>), Lit(<<"N","o">>)>>),
           Opt(Lit(<<".">>)), Opt(Lit(<<":">>)), Ws1, Plus(Digit) >>)
CompanyRegistration ==
    Cat(<< Lit(<<"C","o","m","p","a","n","y">>), Ws1,
           Lit(<<"R","e","g","i","s","t","r","a","t","i","o","n">>), Ws1, NumberNo >>)
Vat == Cat(<<Lit(<<"V","A","T">>), Ws1, NumberNo>>)
\* \s*[- or en dash]\s*
Dash == Cat(<<Ws0, Set({"-", EnDash}), Ws0>>)
Quote == Set({"\"", "'"})
\* <meta\s+ATTR=["\']VALUE["\'][^>]*content=["\'](...)["\'"][^>]*>
Meta(attr, value) ==
    Cat(<< Lit(<<"<","m","e","t","a">>), Ws1, Lit(attr), Lit(<<"=">>), Quote,
           Lit(value), Quote, Star(NotSet({">"})),
           Lit(<<"c","o","n","t","e","n","t","=">>), Quote, SuffixedName, Quote,
           Star(NotSet({">"})), Lit(<<">">>) >>)
company_patterns ==
    << \* standard copyright patterns
       Cat(<<CopyrightYear, SuffixedName>>),
       \* copyright year and name without legal suffix
       Cat(<<CopyrightYear, Group(Cat(<<Cap, Rep(NameChar, 3, 50)>>))>>),
       \* data controller / processor / owner is
       Cat(<< Lit(<<"d","a","t","a">>), Ws1,
              Alt(<< Lit(<<"c","o","n","t","r","o","l","l","e","r">>),
                     Lit(<<"p","r","o","c","e","s","s","o","r">>),
                     Lit(<<"o","w","n","e","r">>) >>),
              Ws1, Lit(<<"i","s">>), Ws1, SuffixedName >>),
       \* operated by
       Cat(<< Alt(<< Cat(<< Lit(<<"i","s">>), Ws1, Lit(<<"o","w","n","e","d">>), Ws1,
                            Lit(<<"a","n","d">>), Ws1,
                            Lit(<<"o","p","e","r","a","t","e","d">>), Ws1,
                            Lit(<<"b","y">>) >>),
                     Cat(<< Lit(<<"t","r","a","d","i","n","g">>), Ws1, Lit(<<"a","s">>) >>),
                     Lit(<<"t","/","a">>),
                     Cat(<< Lit(<<"o","p","e","r","a","t","e","d">>), Ws1,
                            Lit(<<"b","y">>) >>) >>),
              Ws1, SuffixedName >>),
       \* developed by / powered by
       Cat(<< Alt(<< Lit(<<"d","e","v","e","l","o","p","e","d">>),
                     Lit(<<"p","o","w","e","r","e","d">>) >>),
              Ws1, Lit(<<"b","y">>), Ws1, SuffixedName >>),
       \* footer company with All rights reserved
       Cat(<< SuffixedName, Ws1, Lit(<<"A","l","l">>), Ws1,
              Lit(<<"R","i","g","h","t","s">>), Ws1,
              Lit(<<"R","e","s","e","r","v","e","d">>) >>),
       \* Contact / About
       Cat(<< Alt(<< Lit(<<"C","o","n","t","a","c","t">>), Lit(<<"A","b","o","u","t">>) >>),
              Ws1, SuffixedName >>),
       \* company with registered address
       Cat(<< SuffixedName, Ws1, Lit(<<"i","s">>), Ws1,
              Lit(<<"r","e","g","i","s","t","e","r","e","d">>), Ws1, Lit(<<"a","t">>) >>),
       \* company with registration number
       Cat(<<CompanyRegistration, Dash, OpenName>>),
       Cat(<<OpenName, Ws1, CompanyRegistration>>),
       \* company with VAT number
       Cat(<<Vat, Dash, OpenName>>),
       Cat(<<OpenName, Ws1, Vat>>),
       \* simple company name in footer
       Cat(<< Lit(<<"<","f","o","o","t","e","r">>), Star(NotSet({">"})), Lit(<<">">>),
              LazyStar(NotSet({})),
              Group(Cat(<<Cap, Rep(NameChar, 2, 50), LegalSuffix>>)),
              LazyStar(NotSet({})), Lit(<<"<","/","f","o","o","t","e","r",">">>) >>),
       \* company names in meta tags
       Meta(<<"n","a","m","e">>, <<"a","u","t","h","o","r">>),
       Meta(<<"p","r","o","p","e","r","t","y">>, <<"o","g",":","s","i","t","e","_","n","a","m","e">>),
       \* about page phrases
       Cat(<< Lit(<<"w","a","s">>), Ws1, Lit(<<"f","o","u","n","d","e","d">>), Ws1,
              Alt(<<Lit(<<"i","n">>), Lit(<<"b","y">>)>>), Ws1, SuffixedName >>),
       Cat(<< Lit(<<"w","e","l","c","o","m","e">>), Ws1, Lit(<<"t","o">>), Ws1,
              SuffixedName >>) >>

(***************************************************************************)
(* Python values.                                                          *)
(***************************************************************************)
\* None: a value that is no string
None == <<"None">>
\* the truth value Python gives an Optional[str]: None and '' are false
Truthy(x) == x # None /\ x # <<>>

\* re.sub(p, repl, s) for a pattern that matches no empty string
RECURSIVE ReSubFrom(_, _, _, _)
ReSubFrom(p, repl, s, pos) ==
    LET found == [q \in pos..Len(s) |-> Match(s, <<p>>, q, 0, 0)]
        starts == {q \in pos..Len(s) : found[q] # NoMatch}
    IN IF starts = {} THEN Sub(s, pos, Len(s))
       ELSE Sub(s, pos, MinOf(starts) - 1) \o repl
            \o ReSubFrom(p, repl, s, found[MinOf(starts)][1])
ReSub(p, repl, s) == ReSubFrom(p, repl, s, 1)

(***************************************************************************)
(* CompanyNameExtractor._validate_company_name                             *)
(***************************************************************************)
MinNameLen == 3
SuspiciousMaxLen == 30
suspicious ==
    << <<"a","l","l"," ","r","i","g","h","t","s"," ","r","e","s","e","r","v","e","d">>,
       <<"p","r","i","v","a","c","y"," ","p","o","l","i","c","y">>,
       <<"t","e","r","m","s"," ","o","f"," ","s","e","r","v","i","c","e">>,
       <<"c","o","o","k","i","e"," ","p","o","l","i","c","y">>,
       <<"s","i","t","e","m","a","p">>,
       <<"c","o","n","t","a","c","t"," ","u","s">>,
       <<"a","b","o","u","t"," ","u","s">> >>

\* a validation that looks for the suspicious patterns in the name as written
validate_company_name_case_sensitive(name) ==
    IF name = <<>> \/ Len(name) < MinNameLen THEN FALSE
    ELSE IF ~HasLetter(name) THEN FALSE
    ELSE ~\E k \in DOMAIN suspicious :
            Contains(name, suspicious[k]) /\ Len(name) < SuspiciousMaxLen

validate_company_name(name) ==
    IF name = <<>> \/ Len(name) < MinNameLen THEN FALSE
    ELSE IF ~HasLetter(name) THEN FALSE
    ELSE ~\E k \in DOMAIN suspicious :
            Contains(Lower(name), suspicious[k]) /\ Len(name) < SuspiciousMaxLen

(***************************************************************************)
(* CompanyNameExtractor._normalize_company_name                            *)
(***************************************************************************)
legal_suffixes ==
    << <<"l","t","d">>, <<"l","i","m","i","t","e","d">>, <<"l","l","c">>,
       <<"i","n","c">>, <<"c","o","r","p">>,
       <<"c","o","r","p","o","r","a","t","i","o","n">>, <<"g","m","b","h">>,
       <<"b",".","v",".">>, <<"p","t","y"," ","l","t","d">>, <<"s",".","a",".">>,
       <<"c","o",".">> >>

\* the loop over legal_suffixes, from suffix k on
RECURSIVE StripSuffixes(_, _)
StripSuffixes(normalized, k) ==
    IF k > Len(legal_suffixes) THEN normalized
    ELSE IF EndsWith(normalized, legal_suffixes[k])
         THEN StripSuffixes(
                Strip(Sub(normalized, 1, Len(normalized) - Len(legal_suffixes[k]))), k + 1)
         ELSE StripSuffixes(normalized, k + 1)

normalize_company_name(name) ==
    IF name = <<>> THEN <<>>
    ELSE Strip(CollapseSpace(RemovePunct(StripSuffixes(Lower(name), 1))))

(***************************************************************************)
(* CompanyNameExtractor._clean_company_name                                *)
(***************************************************************************)
cleanup_phrases ==
    << <<"A","l","l"," ","R","i","g","h","t","s"," ","R","e","s","e","r","v","e","d">>,
       <<"P","r","i","v","a","c","y"," ","P","o","l","i","c","y">>,
       <<"T","e","r","m","s"," ","o","f"," ","S","e","r","v","i","c","e">>,
       <<"T","e","r","m","s"," ","a","n","d"," ","C","o","n","d","i","t","i","o","n","s">>,
       <<"H","o","m","e">>,
       <<"A","b","o","u","t">>,
       <<"C","o","n","t","a","c","t">>,
       <<"C","o","p","y","r","i","g","h","t">>,
       <<"W","e","b","s","i","t","e">> >>

\* the loop over cleanup_phrases, from phrase k on
RECURSIVE RemovePhrases(_, _)
RemovePhrases(cleaned, k) ==
    IF k > Len(cleanup_phrases) THEN cleaned
    ELSE RemovePhrases(ReSub(Lit(cleanup_phrases[k]), <<>>, cleaned), k + 1)

\* re.sub(r'<[^>]+>', '', name)
RemoveTags(name) ==
    ReSub(Cat(<<Set({"<"}), Plus(NotSet({">"})), Set({">"})>>), <<>>, name)

clean_company_name(name) ==
    IF ~Truthy(name) THEN None
    ELSE LET tagless == Strip(CollapseSpace(RemoveTags(name)))
             phraseless == RemovePhrases(tagless, 1)
             trimmed == RStripSet(phraseless, {".", ",", ";", ":"})
         IN Strip(CollapseSpace(trimmed))

(***************************************************************************)
(* CompanyNameExtractor.extract_company_name_from_text                     *)
(***************************************************************************)
\* lines 265-274: the validated candidates of the rules from rule k on
RECURSIVE CandidatesFrom(_, _)
CandidatesFrom(text, k) ==
    IF k > Len(company_patterns) THEN <<>>
    ELSE LET found == FindIter(company_patterns[k], text)
             stripped == [i \in DOMAIN found |-> Strip(found[i])]
         IN SelectSeq(stripped, validate_company_name) \o CandidatesFrom(text, k + 1)
Candidates(text) == CandidatesFrom(text, 1)

\* lines 278-282: the dict counts, as a sequence of <<key, count>> in insertion order
RECURSIVE Counts(_)
Counts(candidates) ==
    IF candidates = <<>> THEN <<>>
    ELSE LET before == Counts(Sub(candidates, 1, Len(candidates) - 1))
             norm == normalize_company_name(candidates[Len(candidates)])
         IN IF \E i \in DOMAIN before : before[i][1] = norm
            THEN [i \in DOMAIN before |->
                    IF before[i][1] = norm THEN <<norm, before[i][2] + 1>> ELSE before[i]]
            ELSE Append(before, <<norm, 1>>)

\* a sort that puts an item behind the items of equal count that follow it
RECURSIVE SortedByCountUnstable(_)
SortedByCountUnstable(items) ==
    IF items = <<>> THEN <<>>
    ELSE LET rest == SortedByCountUnstable(Tail(items))
             x == Head(items)
         IN SelectSeq(rest, LAMBDA y : y[2] >= x[2]) \o <<x>>
            \o SelectSeq(rest, LAMBDA y : y[2] < x[2])

\* sorted(items, key=lambda x: x[1], reverse=True): a stable sort, so items of
\* equal count keep their order
RECURSIVE SortedByCount(_)
SortedByCount(items) ==
    IF items = <<>> THEN <<>>
    ELSE LET rest == SortedByCount(Tail(items))
             x == Head(items)
             \* x goes before the first item of rest whose count is not greater
             ahead == SelectSeq(rest, LAMBDA y : y[2] > x[2])
             behind == SelectSeq(rest, LAMBDA y : y[2] <= x[2])
         IN ahead \o <<x>> \o behind

\* lines 278-286: best_candidate, for a non-empty list of validated candidates
best_of(found) == SortedByCount(Counts(found))[1][1]

\* lines 276-293, from the validated candidates
select_best(found) ==
    IF found = <<>> THEN None ELSE clean_company_name(best_of(found))

extract_company_name_from_text(text) ==
    IF ~Truthy(text) THEN None ELSE select_best(Candidates(text))

(***************************************************************************)
(* CompanyNameExtractor.normalize_url                                      *)
(***************************************************************************)
Http == <<"h","t","t","p",":","/","/">>
Https == <<"h","t","t","p","s",":","/","/">>
Www == <<"w","w","w",".">>

normalize_url(base_url, relative_url) ==
    IF StartsWith(relative_url, Http) \/ StartsWith(relative_url, Https)
    THEN relative_url
    ELSE LET base_parts == SplitFirst(SplitFirst(base_url, "#"), "?")
         IN IF StartsWith(relative_url, <<"/">>)
            THEN (IF EndsWith(base_parts, <<"/">>)
                  THEN Sub(base_parts, 1, Len(base_parts) - 1)
                  ELSE base_parts) \o relative_url
            ELSE (IF EndsWith(base_parts, <<"/">>)
                  THEN base_parts
                  ELSE base_parts \o <<"/">>) \o relative_url

(***************************************************************************)
(* CompanyNameExtractor.find_privacy_policy_url                            *)
(***************************************************************************)
\* <a[^>]*href="([^"]*KEYWORD[^"]*)"[^>]*>
PolicyLink(keyword) ==
    Cat(<< Lit(<<"<","a">>), Star(NotSet({">"})), Lit(<<"h","r","e","f","=","\"">>),
           Group(Cat(<<Star(NotSet({"\""})), Lit(keyword), Star(NotSet({"\""}))>>)),
           Lit(<<"\"">>), Star(NotSet({">"})), Lit(<<">">>) >>)

privacy_policy_patterns ==
    << PolicyLink(<<"p","r","i","v","a","c","y">>),
       PolicyLink(<<"p","o","l","i","c","y">>),
       PolicyLink(<<"t","e","r","m","s">>),
       PolicyLink(<<"i","m","p","r","i","n","t">>),
       PolicyLink(<<"i","m","p","r","e","s","s","u","m">>),
       PolicyLink(<<"l","e","g","a","l">>) >>

common_policy_paths ==
    << <<"/","p","r","i","v","a","c","y">>,
       <<"/","p","r","i","v","a","c","y","-","p","o","l","i","c","y">>,
       <<"/","t","e","r","m","s">>,
       <<"/","t","e","r","m","s","-","o","f","-","s","e","r","v","i","c","e">>,
       <<"/","t","e","r","m","s","-","a","n","d","-","c","o","n","d","i","t","i","o","n","s">>,
       <<"/","l","e","g","a","l">>,
       <<"/","i","m","p","r","i","n","t">>,
       <<"/","i","m","p","r","e","s","s","u","m">>,
       <<"/","d","a","t","e","n","s","c","h","u","t","z">> >>

\* lines 190-200: the hrefs matched by the patterns from pattern k on, normalized
RECURSIVE MarkupUrlsFrom(_, _, _)
MarkupUrlsFrom(base_url, homepage_content, k) ==
    IF k > Len(privacy_policy_patterns) THEN <<>>
    ELSE LET hrefs == FindIter(privacy_policy_patterns[k], homepage_content)
         IN [i \in DOMAIN hrefs |-> normalize_url(base_url, hrefs[i])]
            \o MarkupUrlsFrom(base_url, homepage_content, k + 1)

\* lines 215-218: the common paths from path k on, each appended if not yet listed
RECURSIVE AddCommonPaths(_, _, _)
AddCommonPaths(base_url, policy_urls, k) ==
    IF k > Len(common_policy_paths) THEN policy_urls
    ELSE LET url == normalize_url(base_url, common_policy_paths[k])
         IN AddCommonPaths(base_url,
                           IF url \in Range(policy_urls) THEN policy_urls
                           ELSE Append(policy_urls, url),
                           k + 1)

find_privacy_policy_url(base_url, homepage_content) ==
    AddCommonPaths(base_url, MarkupUrlsFrom(base_url, homepage_content, 1), 1)

(***************************************************************************)
(* CompanyNameExtractor.extract_text_from_html (lines 222-247).  Line 235  *)
(* hands the page to BeautifulSoup with the parser 'html.parser': the      *)
(* HTMLParser of Python's standard library reads the page and reports      *)
(* start tags, end tags, text, references, comments and declarations, and  *)
(* BeautifulSoup builds the tree from these reports.  The first half of    *)
(* this section is HTMLParser as the interpreter of the repository ships   *)
(* it (html/parser.py and _markupbase.py of Python 3.11), with             *)
(* convert_charrefs off as BeautifulSoup constructs it; positions count    *)
(* from 1 and an end position is the position after the last character.    *)
(* The second half is the tree builder of BeautifulSoup, which setup.py    *)
(* requires (beautifulsoup4 4.9.0 or later) and which is no part of the    *)
(* repository: its strings, its stack of open elements, and get_text.      *)
(***************************************************************************)
\* a word matched as it is written
Exact(w) == Cat([k \in DOMAIN w |-> Set({w[k]})])
\* s.find(c, p): the position of the first c from p on, or 0
Find(s, c, p) ==
    LET at == {e \in p..Len(s) : s[e] = c}
    IN IF at = {} THEN 0 ELSE MinOf(at)
\* pattern.match(s, p): <<end, group start, group end>>, or NoMatch
MatchAt(pat, s, p) == Match(s, <<pat>>, p, 0, 0)
\* pattern.search(s, p): <<start, end>> of the first match from p on, or <<0, 0>>
Search(pat, s, p) ==
    LET First(ends) ==
            IF ends = {} THEN <<0, 0>>
            ELSE CHOOSE m \in ends : \A o \in ends : m[1] <= o[1]
    IN First({m \in {<<q, MatchAt(pat, s, q)[1]>> : q \in p..Len(s)} : m[2] # 0})

HexDigits == AsciiDigits \cup {"a","b","c","d","e","f","A","B","C","D","E","F"}
\* html/parser.py lines 21-58: the patterns
\* starttagopen: <[a-zA-Z]
starttagopen == Cat(<<Set({"<"}), Set(AsciiLetters)>>)
\* incomplete: &[a-zA-Z#]
incomplete == Cat(<<Set({"&"}), Set(AsciiLetters \cup {"#"})>>)
\* entityref: &([a-zA-Z][-.a-zA-Z0-9]*)[^a-zA-Z0-9]
entityref ==
    Cat(<<Set({"&"}),
          Group(Cat(<<Set(AsciiLetters),
                      Star(Set(AsciiLetters \cup AsciiDigits \cup {"-", "."}))>>)),
          NotSet(AsciiLetters \cup AsciiDigits)>>)
\* charref: &#(?:[0-9]+|[xX][0-9a-fA-F]+)[^0-9a-fA-F]
charref ==
    Cat(<<Set({"&"}), Set({"#"}),
          Alt(<<Plus(Set(AsciiDigits)),
                Cat(<<Set({"x", "X"}), Plus(Set(HexDigits))>>)>>),
          NotSet(HexDigits)>>)
\* commentclose: --\s*>
commentclose == Cat(<<Set({"-"}), Set({"-"}), Star(Set(Space)), Set({">"})>>)
\* [^\t\n\r\f />\x00]
TagNameRest == NotSet({"\t", "\n", "\r", "\f", " ", "/", ">", Null})
\* (?:\s|/(?!>))*
SpaceOrSlash == Star(Alt(<<Set(Space), Cat(<<Set({"/"}), NotAhead({">"})>>)>>))
\* tagfind_tolerant: ([a-zA-Z][^\t\n\r\f />\x00]*)(?:\s|/(?!>))*
tagfind_tolerant ==
    Cat(<<Group(Cat(<<Set(AsciiLetters), Star(TagNameRest)>>)), SpaceOrSlash>>)
\* (?<=['"\s/])[^\s/>][^\s/=>]*
AttrName ==
    Cat(<<Behind({"'", "\"", "/"} \cup Space),
          NotSet(Space \cup {"/", ">"}),
          Star(NotSet(Space \cup {"/", "=", ">"}))>>)
\* '[^']*'|"[^"]*"|(?!['"])[^>\s]*
AttrValue ==
    Alt(<<Cat(<<Set({"'"}), Star(NotSet({"'"})), Set({"'"})>>),
          Cat(<<Set({"\""}), Star(NotSet({"\""})), Set({"\""})>>),
          Cat(<<NotAhead({"'", "\""}), Star(NotSet(Space \cup {">"}))>>)>>)
\* attrfind_tolerant:
\* ((?<=['"\s/])[^\s/>][^\s/=>]*)(\s*=+\s*('[^']*'|"[^"]*"|(?!['"])[^>\s]*))?(?:\s|/(?!>))*
attrfind_tolerant ==
    Cat(<<AttrName,
          Opt(Cat(<<Star(Set(Space)), Plus(Set({"="})), Star(Set(Space)),
                    AttrValue>>)),
          SpaceOrSlash>>)
\* locatestarttagend_tolerant (lines 40-54):
\*   <[a-zA-Z][^\t\n\r\f />\x00]*
\*   (?:[\s/]*
\*     (?:(?<=['"\s/])[^\s/>][^\s/=>]*
\*        (?:\s*=+\s*(?:'[^']*'|"[^"]*"|(?!['"])[^>\s]*)\s*)?
\*        (?:\s|/(?!>))*
\*     )*
\*   )?
\*   \s*
\* Every part after the name may match nothing, so no part is ever given up
\* for the sake of a later one: the match is the name, the run of [\s/], the
\* attributes one after the other as long as one matches, and the run of \s.
StartTagName == Cat(<<Set({"<"}), Set(AsciiLetters), Star(TagNameRest)>>)
StartTagAttr ==
    Cat(<<AttrName,
          Opt(Cat(<<Star(Set(Space)), Plus(Set({"="})), Star(Set(Space)),
                    AttrValue, Star(Set(Space))>>)),
          SpaceOrSlash>>)
RECURSIVE StartTagAttrs(_, _)
StartTagAttrs(rawdata, k) ==
    LET After(m) == IF m = NoMatch THEN k ELSE StartTagAttrs(rawdata, m[1])
    IN After(MatchAt(StartTagAttr, rawdata, k))
\* the end of the match of locatestarttagend_tolerant at i, where '<' and a
\* letter stand
locatestarttagend_tolerant(rawdata, i) ==
    LET name == MatchAt(StartTagName, rawdata, i)[1]
        slashes == MatchAt(Star(Set(Space \cup {"/"})), rawdata, name)[1]
        attrs == StartTagAttrs(rawdata, slashes)
    IN MatchAt(Star(Set(Space)), rawdata, attrs)[1]
\* endtagfind: </\s*([a-zA-Z][-.a-zA-Z0-9:_]*)\s*>
endtagfind ==
    Cat(<<Set({"<"}), Set({"/"}), Star(Set(Space)),
          Group(Cat(<<Set(AsciiLetters),
                      Star(Set(AsciiLetters \cup AsciiDigits
                               \cup {"-", ".", ":", "_"}))>>)),
          Star(Set(Space)), Set({">"})>>)
\* set_cdata_mode (lines 122-124): </\s*NAME\s*> under re.I
interesting_cdata(cdata_elem) ==
    Cat(<<Set({"<"}), Set({"/"}), Star(Set(Space)), Lit(cdata_elem),
          Star(Set(Space)), Set({">"})>>)
\* _markupbase.py lines 10-18
\* _declname_match: [a-zA-Z][-_.a-zA-Z0-9]*\s*
declname ==
    Cat(<<Set(AsciiLetters),
          Star(Set(AsciiLetters \cup AsciiDigits \cup {"-", "_", "."})),
          Star(Set(Space))>>)
\* _markedsectionclose: ]\s*]\s*>
markedsectionclose ==
    Cat(<<Set({"]"}), Star(Set(Space)), Set({"]"}), Star(Set(Space)), Set({">"})>>)
\* _msmarkedsectionclose: ]\s*>
msmarkedsectionclose == Cat(<<Set({"]"}), Star(Set(Space)), Set({">"})>>)

\* HTMLParser.CDATA_CONTENT_ELEMENTS
CDATA_CONTENT_ELEMENTS == { <<"s","c","r","i","p","t">>, <<"s","t","y","l","e">> }
\* the keywords of a marked section (_markupbase.py lines 147, 150)
MarkedSectionKeywords ==
    { <<"t","e","m","p">>,
      <<"c","d","a","t","a">>,
      <<"i","g","n","o","r","e">>,
      <<"i","n","c","l","u","d","e">>,
      <<"r","c","d","a","t","a">> }
MsMarkedSectionKeywords ==
    { <<"i","f">>, <<"e","l","s","e">>, <<"e","n","d","i","f">> }

\* what the parser reports: a call of a handler, with the position in the
\* page of the construct it reports
Event(k, at, s) == [k |-> k, at |-> at, s |-> s]
\* what parsing one construct gives: the position after it (0: the
\* construct is not complete), the reports, the element whose content is
\* read as CDATA from here on (None: no such element), and whether the
\* parser raised
Parsed(k, ev, cdata_elem) ==
    [k |-> k, ev |-> ev, cdata_elem |-> cdata_elem, raised |-> FALSE]
NotComplete(cdata_elem) == Parsed(0, <<>>, cdata_elem)
Raises == [k |-> 0, ev |-> <<>>, cdata_elem |-> None, raised |-> TRUE]

\* HTMLParser.check_for_whole_start_tag (lines 344-375): the position after
\* the start tag that begins at i, or 0
check_for_whole_start_tag(rawdata, i) ==
    LET After(j) ==
            IF j > Len(rawdata) THEN 0
            ELSE IF rawdata[j] = ">" THEN j + 1
            ELSE IF rawdata[j] = "/"
                 THEN (IF j < Len(rawdata) /\ rawdata[j + 1] = ">" THEN j + 2 ELSE 0)
            ELSE IF rawdata[j] \in AsciiLetters \cup {"="} THEN 0
            ELSE j
    IN After(locatestarttagend_tolerant(rawdata, i))
\* lines 314-332: the position after the attributes read from k on
RECURSIVE AttrsEnd(_, _, _)
AttrsEnd(rawdata, k, endpos) ==
    LET After(m) == IF m = NoMatch THEN k ELSE AttrsEnd(rawdata, m[1], endpos)
    IN IF k >= endpos THEN k ELSE After(MatchAt(attrfind_tolerant, rawdata, k))
\* HTMLParser.parse_starttag (lines 300-341)
parse_starttag(rawdata, i, cdata_elem) ==
    LET Tag(endpos, tag, end) ==
            IF end \notin {<<">">>, <<"/", ">">>}
            THEN Parsed(endpos, <<Event("data", i, Sub(rawdata, i, endpos - 1))>>,
                        cdata_elem)
            ELSE IF end = <<"/", ">">>
                 THEN Parsed(endpos, <<Event("startendtag", i, tag)>>, cdata_elem)
            ELSE Parsed(endpos, <<Event("starttag", i, tag)>>,
                        IF tag \in CDATA_CONTENT_ELEMENTS THEN tag ELSE cdata_elem)
        Named(endpos, m) ==
            Tag(endpos, Lower(Sub(rawdata, m[2], m[3] - 1)),
                Strip(Sub(rawdata, AttrsEnd(rawdata, m[1], endpos), endpos - 1)))
        Whole(endpos) ==
            IF endpos = 0 THEN NotComplete(cdata_elem)
            ELSE Named(endpos, MatchAt(tagfind_tolerant, rawdata, i + 1))
    IN Whole(check_for_whole_start_tag(rawdata, i))
\* HTMLParser.parse_bogus_comment (lines 276-285)
parse_bogus_comment(rawdata, i, cdata_elem) ==
    LET pos == Find(rawdata, ">", i + 2)
    IN IF pos = 0 THEN NotComplete(cdata_elem)
       ELSE Parsed(pos + 1, <<Event("comment", i, Sub(rawdata, i + 2, pos - 1))>>,
                   cdata_elem)
\* HTMLParser.parse_endtag (lines 378-415)
parse_endtag(rawdata, i, cdata_elem) ==
    LET AsData(gtpos) ==
            Parsed(gtpos, <<Event("data", i, Sub(rawdata, i, gtpos - 1))>>, cdata_elem)
        Tolerant(gtpos, namematch) ==
            IF cdata_elem # None THEN AsData(gtpos)
            ELSE IF namematch = NoMatch
                 THEN (IF Sub(rawdata, i, i + 2) = <<"<", "/", ">">>
                       THEN Parsed(i + 3, <<>>, cdata_elem)
                       ELSE parse_bogus_comment(rawdata, i, cdata_elem))
            ELSE Parsed(Find(rawdata, ">", namematch[1]) + 1,
                        <<Event("endtag", i,
                                Lower(Sub(rawdata, namematch[2], namematch[3] - 1)))>>,
                        cdata_elem)
        Strict(gtpos, elem) ==
            IF cdata_elem # None /\ elem # cdata_elem THEN AsData(gtpos)
            ELSE Parsed(gtpos, <<Event("endtag", i, elem)>>, None)
        Ended(gtpos, m) ==
            IF gtpos = 1 THEN NotComplete(cdata_elem)
            ELSE IF m = NoMatch
                 THEN Tolerant(gtpos, MatchAt(tagfind_tolerant, rawdata, i + 2))
            ELSE Strict(gtpos, Lower(Sub(rawdata, m[2], m[3] - 1)))
    IN Ended(Find(rawdata, ">", i + 1) + 1, MatchAt(endtagfind, rawdata, i))
\* ParserBase.parse_comment (_markupbase.py lines 165-176)
parse_comment(rawdata, i, cdata_elem) ==
    LET Closed(match) ==
            IF match[1] = 0 THEN NotComplete(cdata_elem)
            ELSE Parsed(match[2],
                        <<Event("comment", i, Sub(rawdata, i + 4, match[1] - 1))>>,
                        cdata_elem)
    IN Closed(Search(commentclose, rawdata, i + 4))
\* HTMLParser.parse_pi (lines 288-297)
parse_pi(rawdata, i, cdata_elem) ==
    LET gt == Find(rawdata, ">", i + 2)
    IN IF gt = 0 THEN NotComplete(cdata_elem)
       ELSE Parsed(gt + 1, <<Event("pi", i, Sub(rawdata, i + 2, gt - 1))>>, cdata_elem)
\* ParserBase.parse_marked_section (_markupbase.py lines 141-162), with
\* _scan_name (lines 376-393): the section's keyword is read at i + 3
parse_marked_section(rawdata, i, cdata_elem) ==
    LET Closed(match) ==
            IF match[1] = 0 THEN NotComplete(cdata_elem)
            ELSE Parsed(match[2],
                        <<Event("unknown_decl", i, Sub(rawdata, i + 3, match[1] - 1))>>,
                        cdata_elem)
        Section(sectName) ==
            IF sectName \notin MarkedSectionKeywords \cup MsMarkedSectionKeywords
            THEN Raises
            ELSE Closed(Search(IF sectName \in MarkedSectionKeywords
                               THEN markedsectionclose ELSE msmarkedsectionclose,
                               rawdata, i + 3))
        Named(m) ==
            IF m = NoMatch THEN Raises
            ELSE IF m[1] > Len(rawdata) THEN NotComplete(cdata_elem)
            ELSE Section(Lower(Strip(Sub(rawdata, i + 3, m[1] - 1))))
    IN IF i + 3 > Len(rawdata) THEN NotComplete(cdata_elem)
       ELSE Named(MatchAt(declname, rawdata, i + 3))
\* HTMLParser.parse_html_declaration (lines 255-273)
parse_html_declaration(rawdata, i, cdata_elem) ==
    LET gtpos == Find(rawdata, ">", i + 9)
    IN IF Sub(rawdata, i, Min(i + 3, Len(rawdata))) = <<"<", "!", "-", "-">>
       THEN parse_comment(rawdata, i, cdata_elem)
       ELSE IF Sub(rawdata, i, Min(i + 2, Len(rawdata))) = <<"<", "!", "[">>
            THEN parse_marked_section(rawdata, i, cdata_elem)
       ELSE IF Lower(Sub(rawdata, i, Min(i + 8, Len(rawdata))))
                 = <<"<", "!", "d", "o", "c", "t", "y", "p", "e">>
            THEN (IF gtpos = 0 THEN NotComplete(cdata_elem)
                  ELSE Parsed(gtpos + 1,
                              <<Event("decl", i, Sub(rawdata, i + 2, gtpos - 1))>>,
                              cdata_elem))
       ELSE parse_bogus_comment(rawdata, i, cdata_elem)

\* what one turn of the loop of goahead gives: the position from which the
\* loop goes on, the reports, the CDATA element, whether the parser raised,
\* and whether the loop is left (break)
Turn(r, stops) ==
    [i |-> r.k, ev |-> r.ev, cdata_elem |-> r.cdata_elem, raised |-> r.raised,
     stops |-> stops]
\* lines 168-198: the construct that begins with '<' at i
AtLessThan(rawdata, i, end, cdata_elem) ==
    LET n == Len(rawdata)
        Starts(w) == Sub(rawdata, i, Min(i + Len(w) - 1, n)) = w
        Skipped(k) ==
            Turn(Parsed(k, <<Event("data", i, Sub(rawdata, i, k - 1))>>, cdata_elem),
                 FALSE)
        After(starttag, r) ==
            IF r.raised THEN Turn(r, TRUE)
            ELSE IF r.k # 0 THEN Turn(r, FALSE)
            ELSE IF ~end \/ ( /\ ~starttag /\ ~Starts(<<"<", "/">>)
                              /\ ~Starts(<<"<", "!">>) /\ ~Starts(<<"<", "?">>) )
                 THEN Turn(Parsed(i, <<>>, cdata_elem), TRUE)
            ELSE IF Find(rawdata, ">", i + 1) # 0
                 THEN Skipped(Find(rawdata, ">", i + 1) + 1)
            ELSE IF Find(rawdata, "<", i + 1) # 0
                 THEN Skipped(Find(rawdata, "<", i + 1))
            ELSE Skipped(i + 1)
        At(starttag) ==
            After(starttag,
                  IF starttag THEN parse_starttag(rawdata, i, cdata_elem)
                  ELSE IF Starts(<<"<", "/">>) THEN parse_endtag(rawdata, i, cdata_elem)
                  ELSE IF Starts(<<"<", "!", "-", "-">>)
                       THEN parse_comment(rawdata, i, cdata_elem)
                  ELSE IF Starts(<<"<", "?">>) THEN parse_pi(rawdata, i, cdata_elem)
                  ELSE IF Starts(<<"<", "!">>)
                       THEN parse_html_declaration(rawdata, i, cdata_elem)
                  ELSE IF i < n
                       THEN Parsed(i + 1, <<Event("data", i, <<"<">>)>>, cdata_elem)
                  ELSE NotComplete(cdata_elem))
    IN At(MatchAt(starttagopen, rawdata, i) # NoMatch)
\* lines 199-213: the character reference that begins with '&#' at i
AtCharRef(rawdata, i, cdata_elem) ==
    LET After(m) ==
            IF m # NoMatch
            THEN Turn(Parsed(IF rawdata[m[1] - 1] = ";" THEN m[1] ELSE m[1] - 1,
                             <<Event("charref", i, Sub(rawdata, i + 2, m[1] - 2))>>,
                             cdata_elem), FALSE)
            ELSE IF Find(rawdata, ";", i) # 0
                 THEN Turn(Parsed(i + 2, <<Event("data", i, Sub(rawdata, i, i + 1))>>,
                                  cdata_elem), TRUE)
            ELSE Turn(Parsed(i, <<>>, cdata_elem), TRUE)
    IN After(MatchAt(charref, rawdata, i))
\* lines 214-240: the '&' at i
AtAmpersand(rawdata, i, end, cdata_elem) ==
    LET n == Len(rawdata)
        After(m) ==
            IF m # NoMatch
            THEN Turn(Parsed(IF rawdata[m[1] - 1] = ";" THEN m[1] ELSE m[1] - 1,
                             <<Event("entityref", i, Sub(rawdata, m[2], m[3] - 1))>>,
                             cdata_elem), FALSE)
            ELSE IF MatchAt(incomplete, rawdata, i) # NoMatch
                 THEN Turn(Parsed(IF end /\ i + 1 = n THEN i + 1 ELSE i, <<>>,
                                  cdata_elem), TRUE)
            ELSE IF i < n
                 THEN Turn(Parsed(i + 1, <<Event("data", i, <<"&">>)>>, cdata_elem),
                           FALSE)
            ELSE Turn(Parsed(i, <<>>, cdata_elem), TRUE)
    IN After(MatchAt(entityref, rawdata, i))
\* HTMLParser.goahead (lines 133-253): the loop from position i on; end says
\* whether the page is known to be whole (close) or not (feed).  The result
\* tells where the loop stopped.
RECURSIVE goahead(_, _, _, _)
goahead(rawdata, i, end, cdata_elem) ==
    LET n == Len(rawdata)
        Stopped(at, ev, elem, raised) ==
            [i |-> at, ev |-> ev, cdata_elem |-> elem, raised |-> raised]
        Rest(text, rest) == [rest EXCEPT !.ev = text \o @]
        After(text, turn) ==
            IF turn.stops
            THEN Stopped(turn.i, text \o turn.ev, turn.cdata_elem, turn.raised)
            ELSE Rest(text \o turn.ev, goahead(rawdata, turn.i, end, turn.cdata_elem))
        Text(j) == IF i < j THEN <<Event("data", i, Sub(rawdata, i, j - 1))>> ELSE <<>>
        At(j) ==
            IF j > n THEN Stopped(j, Text(j), cdata_elem, FALSE)
            ELSE After(Text(j),
                       IF rawdata[j] = "<" THEN AtLessThan(rawdata, j, end, cdata_elem)
                       ELSE IF Sub(rawdata, j, Min(j + 1, n)) = <<"&", "#">>
                            THEN AtCharRef(rawdata, j, cdata_elem)
                       ELSE AtAmpersand(rawdata, j, end, cdata_elem))
        From(found) ==
            IF found = 0 /\ cdata_elem # None THEN Stopped(i, <<>>, cdata_elem, FALSE)
            ELSE At(IF found = 0 THEN n + 1 ELSE found)
    IN IF i > n THEN Stopped(i, <<>>, cdata_elem, FALSE)
       ELSE From(Search(IF cdata_elem = None THEN Set({"&", "<"})
                         ELSE interesting_cdata(cdata_elem), rawdata, i)[1])
\* HTMLParser.feed and HTMLParser.close, as BeautifulSoupHTMLTreeBuilder.feed
\* calls them on the whole page: goahead(False), then goahead(True) from
\* where the first stopped, then what is left as text (lines 244-252) unless
\* the content of a script or style element is being read.  The result is
\* the reports up to the point where the parser raised, if it did.
RECURSIVE Passes(_, _, _, _)
Passes(rawdata, i, end, cdata_elem) ==
    LET Then(r) ==
            IF r.raised \/ end THEN r
            ELSE [Passes(rawdata, r.i, TRUE, r.cdata_elem) EXCEPT !.ev = r.ev \o @]
    IN Then(goahead(rawdata, i, end, cdata_elem))
Reports(rawdata) ==
    LET Left(at, elem) ==
            IF at <= Len(rawdata) /\ elem = None
            THEN <<Event("data", at, Sub(rawdata, at, Len(rawdata)))>>
            ELSE <<>>
        Closed(closed) ==
            IF closed.raised THEN [ev |-> closed.ev, raised |-> TRUE]
            ELSE [ev |-> closed.ev \o Left(closed.i, closed.cdata_elem),
                  raised |-> FALSE]
    IN Closed(Passes(rawdata, 1, FALSE, None))

\* the exception BeautifulSoup raises when html.parser gives up on the markup
ParserRejectedMarkup == <<"ParserRejectedMarkup">>
\* whether html.parser raises on the page (AssertionError, which
\* BeautifulSoupHTMLTreeBuilder.feed turns into ParserRejectedMarkup)
ParserRejects(html) == Reports(html).raised
\* the positions from pos on where the parser reports a tag
TagStarts(html, pos) ==
    LET Tags(ev) ==
            {ev[x].at : x \in {y \in DOMAIN ev :
                                 /\ ev[y].k \in {"starttag", "startendtag", "endtag"}
                                 /\ ev[y].at >= pos}}
    IN Tags(Reports(html).ev)
\* the name of the tag the parser reports at q
TagName(html, q) ==
    LET Name(ev) ==
            ev[CHOOSE x \in DOMAIN ev :
                  ev[x].k \in {"starttag", "startendtag", "endtag"} /\ ev[x].at = q].s
    IN Name(Reports(html).ev)

\* BeautifulSoup: what becomes of the reports.
\* HTMLTreeBuilder.empty_element_tags: the elements closed as they open
empty_element_tags ==
    { <<"a","r","e","a">>, <<"b","a","s","e">>, <<"b","r">>, <<"c","o","l">>,
      <<"e","m","b","e","d">>, <<"h","r">>, <<"i","m","g">>,
      <<"i","n","p","u","t">>, <<"k","e","y","g","e","n">>, <<"l","i","n","k">>,
      <<"m","e","n","u","i","t","e","m">>, <<"m","e","t","a">>,
      <<"p","a","r","a","m">>, <<"s","o","u","r","c","e">>,
      <<"t","r","a","c","k">>, <<"w","b","r">>,
      <<"b","a","s","e","f","o","n","t">>, <<"b","g","s","o","u","n","d">>,
      <<"c","o","m","m","a","n","d">>, <<"f","r","a","m","e">>,
      <<"i","m","a","g","e">>, <<"i","s","i","n","d","e","x">>,
      <<"n","e","x","t","i","d">>, <<"s","p","a","c","e","r">> }
\* HTMLTreeBuilder.DEFAULT_STRING_CONTAINERS: the elements whose text is of a
\* class of its own (Script, Stylesheet, TemplateString, RubyTextString,
\* RubyParenthesisString), which get_text passes over
string_containers ==
    { <<"s","c","r","i","p","t">>, <<"s","t","y","l","e">>,
      <<"t","e","m","p","l","a","t","e">>, <<"r","t">>, <<"r","p">> }
\* HTMLTreeBuilder.preserve_whitespace_tags
preserve_whitespace_tags == { <<"p","r","e">>, <<"t","e","x","t","a","r","e","a">> }
\* BeautifulSoup.ASCII_SPACES
ASCII_SPACES == {" ", "\n", "\t", "\f", "\r"}
\* line 238: the elements the extractor removes from the tree
DecomposedTags ==
    { <<"s","c","r","i","p","t">>, <<"s","t","y","l","e">>, <<"h","e","a","d">>,
      <<"n","a","v">> }

\* the characters U+0020 to U+007E, in order
Printable ==
    <<" ", "!", "\"", "#", "$", "%", "&", "'", "(", ")", "*", "+", ",", "-",
      ".", "/", "0", "1", "2", "3", "4", "5", "6", "7", "8", "9", ":", ";",
      "<", "=", ">", "?", "@", "A", "B", "C", "D", "E", "F", "G", "H", "I",
      "J", "K", "L", "M", "N", "O", "P", "Q", "R", "S", "T", "U", "V", "W",
      "X", "Y", "Z", "[", "\\", "]", "^", "_", GraveAccent, "a", "b", "c",
      "d", "e", "f", "g", "h", "i", "j", "k", "l", "m", "n", "o", "p", "q",
      "r", "s", "t", "u", "v", "w", "x", "y", "z", "{", "|", "}", "~" >>
\* the code points of the other characters of the alphabet
CodePoints ==
    <<<<0, Null>>, <<9, "\t">>, <<10, "\n">>, <<11, LineTabulation>>,
      <<12, "\f">>, <<13, "\r">>, <<28, InformationSeparatorFour>>,
      <<29, InformationSeparatorThree>>, <<30, InformationSeparatorTwo>>,
      <<31, InformationSeparatorOne>>, <<133, NextLine>>,
      <<160, NoBreakSpace>>, <<169, CopyrightSign>>, <<178, "²">>,
      <<201, "É">>, <<223, "ß">>, <<233, "é">>,
      <<304, LatinCapitalLetterIWithDotAbove>>,
      <<305, LatinSmallLetterDotlessI>>, <<383, LatinSmallLetterLongS>>,
      <<775, CombiningDotAbove>>, <<931, GreekCapitalLetterSigma>>,
      <<962, GreekSmallLetterFinalSigma>>, <<963, GreekSmallLetterSigma>>,
      <<1632, ArabicIndicDigitZero>>, <<1633, ArabicIndicDigitOne>>,
      <<1634, ArabicIndicDigitTwo>>, <<1635, ArabicIndicDigitThree>>,
      <<1636, ArabicIndicDigitFour>>, <<1637, ArabicIndicDigitFive>>,
      <<1638, ArabicIndicDigitSix>>, <<1639, ArabicIndicDigitSeven>>,
      <<1640, ArabicIndicDigitEight>>, <<1641, ArabicIndicDigitNine>>,
      <<5760, OghamSpaceMark>>, <<8192, EnQuad>>, <<8193, EmQuad>>,
      <<8194, EnSpace>>, <<8195, EmSpace>>, <<8196, ThreePerEmSpace>>,
      <<8197, FourPerEmSpace>>, <<8198, SixPerEmSpace>>,
      <<8199, FigureSpace>>, <<8200, PunctuationSpace>>, <<8201, ThinSpace>>,
      <<8202, HairSpace>>, <<8211, EnDash>>, <<8232, LineSeparator>>,
      <<8233, ParagraphSeparator>>, <<8239, NarrowNoBreakSpace>>,
      <<8287, MediumMathematicalSpace>>, <<8490, KelvinSign>>,
      <<12288, IdeographicSpace>>, <<65296, FullwidthDigitZero>>,
      <<65297, FullwidthDigitOne>>, <<65298, FullwidthDigitTwo>>,
      <<65299, FullwidthDigitThree>>, <<65300, FullwidthDigitFour>>,
      <<65301, FullwidthDigitFive>>, <<65302, FullwidthDigitSix>>,
      <<65303, FullwidthDigitSeven>>, <<65304, FullwidthDigitEight>>,
      <<65305, FullwidthDigitNine>> >>
Entities ==
    <<<<<<"A","M","P">>, "&">>, <<<<"C","O","P","Y">>, CopyrightSign>>,
      <<<<"D","i","a","c","r","i","t","i","c","a","l","G","r","a","v","e">>, GraveAccent>>,
      <<<<"E","a","c","u","t","e">>, "É">>, <<<<"G","T">>, ">">>,
      <<<<"H","a","t">>, "^">>,
      <<<<"I","d","o","t">>, LatinCapitalLetterIWithDotAbove>>,
      <<<<"L","T">>, "<">>,
      <<<<"M","e","d","i","u","m","S","p","a","c","e">>, MediumMathematicalSpace>>,
      <<<<"N","e","w","L","i","n","e">>, "\n">>,
      <<<<"N","o","n","B","r","e","a","k","i","n","g","S","p","a","c","e">>, NoBreakSpace>>,
      <<<<"Q","U","O","T">>, "\"">>,
      <<<<"S","i","g","m","a">>, GreekCapitalLetterSigma>>,
      <<<<"T","a","b">>, "\t">>,
      <<<<"T","h","i","n","S","p","a","c","e">>, ThinSpace>>,
      <<<<"U","n","d","e","r","B","a","r">>, "_">>,
      <<<<"V","e","r","t","i","c","a","l","L","i","n","e">>, "|">>,
      <<<<"V","e","r","y","T","h","i","n","S","p","a","c","e">>, HairSpace>>,
      <<<<"a","m","p">>, "&">>, <<<<"a","p","o","s">>, "'">>,
      <<<<"a","s","t">>, "*">>, <<<<"b","s","o","l">>, "\\">>,
      <<<<"c","o","l","o","n">>, ":">>, <<<<"c","o","m","m","a">>, ",">>,
      <<<<"c","o","m","m","a","t">>, "@">>,
      <<<<"c","o","p","y">>, CopyrightSign>>,
      <<<<"d","o","l","l","a","r">>, "$">>,
      <<<<"e","a","c","u","t","e">>, "é">>,
      <<<<"e","m","s","p","1","3">>, ThreePerEmSpace>>,
      <<<<"e","m","s","p","1","4">>, FourPerEmSpace>>,
      <<<<"e","m","s","p">>, EmSpace>>, <<<<"e","n","s","p">>, EnSpace>>,
      <<<<"e","q","u","a","l","s">>, "=">>, <<<<"e","x","c","l">>, "!">>,
      <<<<"g","r","a","v","e">>, GraveAccent>>, <<<<"g","t">>, ">">>,
      <<<<"h","a","i","r","s","p">>, HairSpace>>,
      <<<<"i","m","a","t","h">>, LatinSmallLetterDotlessI>>,
      <<<<"i","n","o","d","o","t">>, LatinSmallLetterDotlessI>>,
      <<<<"l","b","r","a","c","e">>, "{">>,
      <<<<"l","b","r","a","c","k">>, "[">>, <<<<"l","c","u","b">>, "{">>,
      <<<<"l","o","w","b","a","r">>, "_">>, <<<<"l","p","a","r">>, "(">>,
      <<<<"l","s","q","b">>, "[">>, <<<<"l","t">>, "<">>,
      <<<<"m","i","d","a","s","t">>, "*">>,
      <<<<"n","b","s","p">>, NoBreakSpace>>,
      <<<<"n","d","a","s","h">>, EnDash>>, <<<<"n","u","m">>, "#">>,
      <<<<"n","u","m","s","p">>, FigureSpace>>,
      <<<<"p","e","r","c","n","t">>, "%">>,
      <<<<"p","e","r","i","o","d">>, ".">>, <<<<"p","l","u","s">>, "+">>,
      <<<<"p","u","n","c","s","p">>, PunctuationSpace>>,
      <<<<"q","u","e","s","t">>, "?">>, <<<<"q","u","o","t">>, "\"">>,
      <<<<"r","b","r","a","c","e">>, "}">>,
      <<<<"r","b","r","a","c","k">>, "]">>, <<<<"r","c","u","b">>, "}">>,
      <<<<"r","p","a","r">>, ")">>, <<<<"r","s","q","b">>, "]">>,
      <<<<"s","e","m","i">>, ";">>,
      <<<<"s","i","g","m","a">>, GreekSmallLetterSigma>>,
      <<<<"s","i","g","m","a","f">>, GreekSmallLetterFinalSigma>>,
      <<<<"s","i","g","m","a","v">>, GreekSmallLetterFinalSigma>>,
      <<<<"s","o","l">>, "/">>, <<<<"s","u","p","2">>, "²">>,
      <<<<"s","z","l","i","g">>, "ß">>,
      <<<<"t","h","i","n","s","p">>, ThinSpace>>,
      <<<<"v","a","r","s","i","g","m","a">>, GreekSmallLetterFinalSigma>>,
      <<<<"v","e","r","b","a","r">>, "|">>, <<<<"v","e","r","t">>, "|">> >>
\* windows-1252: the code points of the bytes 0x80 to 0x9F (0: the byte
\* stands for no character)
Windows1252 ==
    << 8364, 0, 8218, 402, 8222, 8230, 8224, 8225, 710, 8240, 352, 8249, 338,
       0, 381, 0, 0, 8216, 8217, 8220, 8221, 8226, 8211, 8212, 732, 8482, 353,
       8250, 339, 0, 382, 376 >>
\* chr(n); a character outside the alphabet is written as its code point
Chr(n) ==
    IF n >= 32 /\ n <= 126 THEN Printable[n - 31]
    ELSE IF \E k \in DOMAIN CodePoints : CodePoints[k][1] = n
         THEN CodePoints[CHOOSE k \in DOMAIN CodePoints : CodePoints[k][1] = n][2]
         ELSE "(code point " \o ToString(n) \o ")"
\* int(s, base) of a string of digits, up to the first number that is no
\* code point (0x110000): chr() takes none from there on
HexAlphabet == <<"0","1","2","3","4","5","6","7","8","9","a","b","c","d","e","f">>
RECURSIVE IntOf(_, _, _)
IntOf(s, base, acc) ==
    IF s = <<>> THEN acc
    ELSE LET digit == (CHOOSE k \in DOMAIN HexAlphabet : HexAlphabet[k] = Fold(Head(s))) - 1
         IN IntOf(Tail(s), base, Min(acc * base + digit, 1114112))
\* BeautifulSoupHTMLParser.handle_charref: the text of &#name;
CharRefData(name) ==
    LET real_name == IF name[1] \in {"x", "X"} THEN IntOf(Tail(name), 16, 0)
                     ELSE IntOf(name, 10, 0)
    IN IF real_name >= 128 /\ real_name <= 159 /\ Windows1252[real_name - 127] # 0
       THEN <<Chr(Windows1252[real_name - 127])>>
       ELSE IF real_name > 1114111 THEN <<Chr(65533)>>
       ELSE <<Chr(real_name)>>
\* BeautifulSoupHTMLParser.handle_entityref: the text of &name;
EntityRefData(name) ==
    IF \E k \in DOMAIN Entities : Entities[k][1] = name
    THEN <<Entities[CHOOSE k \in DOMAIN Entities : Entities[k][1] = name][2]>>
    ELSE <<"&">> \o name

\* The tree under construction: the open elements (tagStack without the
\* document), each with the position of its start tag; the names in
\* already_closed_empty_element; the text collected since the last node
\* (current_data) and whether any was collected; the strings of the tree in
\* document order, each with its class and the names of the elements it
\* lies in; and for the elements closed by an end tag, the positions of
\* their start tag and of that end tag.
NewSoup ==
    [tagStack |-> <<>>, already_closed_empty_element |-> <<>>,
     current_data |-> <<>>, collecting |-> FALSE, strings |-> <<>>, closed |-> {}]
OpenNames(soup) == {soup.tagStack[k].name : k \in DOMAIN soup.tagStack}
\* BeautifulSoup.string_container
string_container(soup, base_class) ==
    IF base_class = "NavigableString" /\ OpenNames(soup) \cap string_containers # {}
    THEN "string container"
    ELSE base_class
\* BeautifulSoup.endData and object_was_parsed
endData(soup, containerClass) ==
    LET strippable == /\ soup.current_data # <<>>
                      /\ \A k \in DOMAIN soup.current_data :
                             soup.current_data[k] \in ASCII_SPACES
                      /\ OpenNames(soup) \cap preserve_whitespace_tags = {}
        current_data == IF ~strippable THEN soup.current_data
                        ELSE IF "\n" \in Range(soup.current_data) THEN <<"\n">>
                        ELSE <<" ">>
    IN IF ~soup.collecting THEN soup
       ELSE [soup EXCEPT !.current_data = <<>>, !.collecting = FALSE,
                         !.strings = Append(@, [text |-> current_data,
                                                class |-> string_container(soup, containerClass),
                                                within |-> OpenNames(soup)])]
\* BeautifulSoup.handle_data
handle_data(soup, data) ==
    [soup EXCEPT !.current_data = @ \o data, !.collecting = TRUE]
\* a node that is no text: endData, handle_data, endData with its class
NodeOf(soup, data, class) == endData(handle_data(endData(soup, "NavigableString"), data), class)
\* BeautifulSoup.handle_starttag and pushTag
soup_handle_starttag(soup, name, at) ==
    [endData(soup, "NavigableString") EXCEPT
        !.tagStack = Append(@, [name |-> name, at |-> at])]
\* BeautifulSoup.handle_endtag and _popToTag: the open elements are closed
\* down to the most recent one of the name; none is if no such element is open
soup_handle_endtag(soup, name, at) ==
    LET Popped(ended, open) ==
            IF open = {} THEN ended
            ELSE [ended EXCEPT
                    !.tagStack = Sub(@, 1, MaxOf(open) - 1),
                    !.closed = @ \cup {<<ended.tagStack[k].at, at>> :
                                         k \in MaxOf(open)..Len(ended.tagStack)}]
        Ended(ended) ==
            Popped(ended, {k \in DOMAIN ended.tagStack : ended.tagStack[k].name = name})
    IN Ended(endData(soup, "NavigableString"))
\* BeautifulSoupHTMLParser.handle_endtag
handle_endtag(soup, name, at, check_already_closed) ==
    LET already == soup.already_closed_empty_element
        first == MinOf({k \in DOMAIN already : already[k] = name})
    IN IF check_already_closed /\ name \in Range(already)
       THEN [soup EXCEPT !.already_closed_empty_element =
                            Sub(@, 1, first - 1) \o Sub(@, first + 1, Len(@))]
       ELSE soup_handle_endtag(soup, name, at)
\* BeautifulSoupHTMLParser.handle_starttag
handle_starttag(soup, name, at, handle_empty_element) ==
    LET Opened(opened) ==
            IF name \in empty_element_tags /\ handle_empty_element
            THEN [handle_endtag(opened, name, at, FALSE) EXCEPT
                     !.already_closed_empty_element = Append(@, name)]
            ELSE opened
    IN Opened(soup_handle_starttag(soup, name, at))
\* BeautifulSoupHTMLParser.unknown_decl: a CDATA section is a string of the
\* tree, any other marked section a declaration
unknown_decl(soup, data) ==
    IF Lower(Sub(data, 1, Min(6, Len(data)))) = <<"c","d","a","t","a","[">>
    THEN NodeOf(soup, Sub(data, 7, Len(data)), "CData")
    ELSE NodeOf(soup, data, "Declaration")
\* the handler BeautifulSoupHTMLParser has for one report
Handle(soup, e) ==
    CASE e.k = "data" -> handle_data(soup, e.s)
      [] e.k = "charref" -> handle_data(soup, CharRefData(e.s))
      [] e.k = "entityref" -> handle_data(soup, EntityRefData(e.s))
      [] e.k = "starttag" -> handle_starttag(soup, e.s, e.at, TRUE)
      [] e.k = "startendtag" ->
             handle_endtag(handle_starttag(soup, e.s, e.at, FALSE), e.s, e.at, TRUE)
      [] e.k = "endtag" -> handle_endtag(soup, e.s, e.at, TRUE)
      [] e.k = "comment" -> NodeOf(soup, e.s, "Comment")
      [] e.k = "decl" -> NodeOf(soup, e.s, "Doctype")
      [] e.k = "pi" -> NodeOf(soup, e.s, "ProcessingInstruction")
      [] e.k = "unknown_decl" -> unknown_decl(soup, e.s)
RECURSIVE HandleAll(_, _, _)
HandleAll(soup, ev, k) ==
    IF k > Len(ev) THEN soup ELSE HandleAll(Handle(soup, ev[k]), ev, k + 1)
\* BeautifulSoup(html, 'html.parser') (line 235): BeautifulSoup._feed on a
\* page the parser takes
Tree(ev) == endData(HandleAll(NewSoup, ev, 1), "NavigableString")
BeautifulSoup(html) == Tree(Reports(html).ev)
\* where the end tag starts that closes the element whose start tag is at q
\* (q itself for an element closed as it opens), or 0
EndTagAt(html, q) ==
    LET Of(closed) ==
            IF \E c \in closed : c[1] = q
            THEN (CHOOSE c \in closed : c[1] = q)[2]
            ELSE 0
    IN Of(BeautifulSoup(html).closed)
\* lines 238-239: decompose() of every element of DecomposedTags
decompose(soup) ==
    [soup EXCEPT !.strings =
        SelectSeq(@, LAMBDA node : node.within \cap DecomposedTags = {})]
\* soup.get_text(separator=' ') (line 242): the NavigableString and CData
\* strings of the tree, joined
RECURSIVE JoinWithSpace(_)
JoinWithSpace(nodes) ==
    IF nodes = <<>> THEN <<>>
    ELSE IF Len(nodes) = 1 THEN nodes[1]
    ELSE nodes[1] \o <<" ">> \o JoinWithSpace(Tail(nodes))
get_text(soup) ==
    LET texts == SelectSeq(soup.strings,
                           LAMBDA node : node.class \in {"NavigableString", "CData"})
    IN JoinWithSpace([k \in DOMAIN texts |-> texts[k].text])

extract_text_from_html(html_content) ==
    LET Text(reports) ==
            IF reports.raised THEN ParserRejectedMarkup
            ELSE Strip(CollapseSpace(get_text(decompose(Tree(reports.ev)))))
    IN IF ~Truthy(html_content) THEN <<>>
       ELSE Text(Reports(html_content))

(***************************************************************************)
(* The inputs of the model: domains, and the bodies a server may send.     *)
(***************************************************************************)
BareDomain == <<"a",".","i","o">>
WwwDomain == Www \o BareDomain
Domains == {BareDomain, WwwDomain}

EmptyBody == <<>>
\* no rule matches, no link
PlainPage == <<"<","p",">","H","i","<","/","p",">">>
\* a copyright notice with a legal suffix
NamedPage == <<CopyrightSign," ","2","0","2","3"," ","A","c","m","e"," ","L","t","d">>
\* a two-letter name followed by a legal suffix
ShortNamePage == <<CopyrightSign," ","2","0","2","3"," ","A","b"," ","L","t","d">>
\* the name stands inside an element: the rules match the text, not the markup
MarkupPage == <<CopyrightSign," ","2","0","2","3"," ","<","b",">","A","c","m","e",
                " ","L","t","d","<","/","b",">">>
\* a link whose href matches two of the link patterns
LinkPage == <<"<","a"," ","h","r","e","f","=","\"","/","p","r","i","v","a","c","y",
              "-","p","o","l","i","c","y","\"",">","P","<","/","a",">">>
\* a policy page that names the operator
DeltaPage == <<"o","p","e","r","a","t","e","d"," ","b","y"," ","D","e","l","t","a"," ",
               "H","o","l","d","i","n","g","s"," ","L","t","d">>
\* a marked section that html.parser does not know
RejectedPage == <<"<","!","[","x","]",">">>
Pages == {PlainPage, NamedPage, ShortNamePage, MarkupPage, LinkPage, DeltaPage,
          RejectedPage}
Bodies == Pages \cup {EmptyBody}

\* response.status_code, or the exception requests.get raised
OkStatus == "200"
TerminalStatuses == {"403", "404"}
RetryStatuses == {"500", "ConnectionError", "Timeout", "RequestException"}


(***************************************************************************)
(* CompanyNameExtractor.extract_company_name and fetch_url: the state.     *)
(***************************************************************************)
VARIABLES
    domain,           \* the argument of extract_company_name
    up,               \* environment: the URLs that answer every GET with 200
    pc,               \* where extract_company_name stands
    result,           \* the dict result
    urls,             \* the candidate homepage URLs
    ui,               \* the index in urls of the loop of line 430
    phase,            \* which loop called fetch_url: "home" or "policy"
    url,              \* the argument of fetch_url
    attempt,          \* GET requests issued by this call of fetch_url
    lastStatus,       \* the outcome of the latest GET
    content,          \* what the latest call of fetch_url returned
    homepage_url,
    homepage_content,
    policy_urls,
    pj,               \* the index in policy_urls of the loop of line 455
    home_fetched,     \* history: the URLs line 431 passed to fetch_url
    policy_fetched,   \* history: the URLs line 457 passed to fetch_url
    first200,         \* history: the first candidate homepage URL that answered 200
    raw_name,         \* extract_company_name_from_text(b) of every body b
    text_name,        \* the same of extract_text_from_html(b)
    candidates,       \* aggregation: the validated candidates
    best_candidate,   \* aggregation: sorted_candidates[0][0]
    clean_name,       \* aggregation: the value returned
    fn,               \* a function called on its own: its name
    args,             \* its arguments
    ret,              \* the value it returned
    tool,             \* batch: which batch function runs
    domains,          \* batch: its argument, the list of domains
    output_file,      \* batch: whether an output file was given
    di,               \* batch: the position in domains of the loop
    results,          \* batch: the list results
    slept,            \* batch history: the positions after which time.sleep ran
    processed,        \* batch history: the domains handed to the extraction
    written,          \* batch: what the output file holds of this run
    heap,             \* store: the dict objects, by object identity
    domains_cache,    \* store: MockDatabase._domains_cache, a list of references
    snapshot,         \* store history: a list a caller got from the store
    snapshot_seen,    \* store history: what its dicts held when it was returned
    op,               \* store: the operation each thread executes
    tpc,              \* store: where each thread stands in its operation
    local,            \* store: each thread's local list domains
    tret,             \* store: what each thread's operation returned
    prior,            \* store history: cache and heap when the operation began
    nops              \* store history: the number of operations begun

vars == <<domain, up, pc, result, urls, ui, phase, url, attempt, lastStatus, content,
          homepage_url, homepage_content, policy_urls, pj, home_fetched,
          policy_fetched, first200, raw_name, text_name, candidates, best_candidate,
          clean_name, fn, args, ret, tool, domains, output_file, di, results, slept,
          processed, written, heap, domains_cache, snapshot, snapshot_seen, op, tpc, local,
          tret, prior, nops>>
\* the variables of the aggregation, and the tables of extraction results, which
\* are computed once and never change
aggVars == <<candidates, best_candidate, clean_name, raw_name, text_name>>
histVars == <<home_fetched, policy_fetched, first200>>
\* the variables of a call of one function on its own
callVars == <<fn, args, ret>>
\* the variables of a batch run
batchVars == <<tool, domains, output_file, di, results, slept, processed, written>>
\* the variables of the domain store and of the threads that use it
storeVars == <<heap, domains_cache, snapshot, snapshot_seen, op, tpc, local, tret,
               prior, nops>>

\* the output file that this run has not opened
NotWritten == [json |-> "none", of |-> <<>>]
\* no batch runs
BatchIdle ==
    /\ tool = "none"
    /\ domains = <<>>
    /\ output_file = FALSE
    /\ di = 0
    /\ results = <<>>
    /\ slept = <<>>
    /\ processed = <<>>
    /\ written = NotWritten

Pending == <<"p","e","n","d","i","n","g">>
Analyzed == <<"a","n","a","l","y","z","e","d">>
Error == <<"e","r","r","o","r">>
EttaLoves == <<"e","t","t","a","l","o","v","e","s",".","c","o","m">>
WebLegs == <<"w","e","b","l","e","g","s",".","c","o",".","u","k">>
JustKeepers == <<"w","w","w",".","j","u","s","t","-","k","e","e","p","e","r","s",".",
        "c","o","m">>
RacketWorld == <<"w","w","w",".","r","a","c","k","e","t","w","o","r","l","d",".","c",
        "o",".","u","k">>
\* datetime.now().isoformat() of a call made after the module was imported
Now == <<"now">>

\* a record of the store
Record(d, s, c, u, t) ==
    [domain |-> d, status |-> s, company_name |-> c, contact_url |-> u,
     last_updated |-> t]

\* mock_db.py lines 18-23: the records as the module text has them
INITIAL_DOMAINS ==
    << Record(EttaLoves, Pending, None, None, <<"2","0","2","3","-","0","3","-","2","0","T","1","2",":","0",
                "0",":","0","0">>),
       Record(WebLegs, Pending, None, None, <<"2","0","2","3","-","0","3","-","2","0","T","1","2",":","0",
                "5",":","0","0">>),
       Record(JustKeepers, Pending, None, None, <<"2","0","2","3","-","0","3","-","2","0","T","1","2",":","1",
                "0",":","0","0">>),
       Record(RacketWorld, Pending, None, None, <<"2","0","2","3","-","0","3","-","2","0","T","1","2",":","1",
                "5",":","0","0">>) >>

\* the threads that may call the store
Threads == {1, 2}
NoOp == [name |-> "none", domain |-> None, status |-> None, company_name |-> None,
         contact_url |-> None]

\* the store after MockDatabase(use_memory=True) was constructed (lines 44-47):
\* the dicts of INITIAL_DOMAINS are the objects 1..4 of the heap, and the cache
\* is a new list of the same objects
StoreConstructed ==
    /\ heap = INITIAL_DOMAINS
    /\ domains_cache = [k \in DOMAIN INITIAL_DOMAINS |-> k]
    /\ snapshot = <<>>
    /\ snapshot_seen = <<>>
    /\ op = [t \in Threads |-> NoOp]
    /\ tpc = [t \in Threads |-> "idle"]
    /\ local = [t \in Threads |-> <<>>]
    /\ tret = [t \in Threads |-> "none"]
    /\ prior = [t \in Threads |-> [cache |-> <<>>, heap |-> <<>>]]
    /\ nops = 0

max_retries == 3

\* s.replace(old, new): every occurrence of old, from the left, none
\* overlapping another
RECURSIVE Replace(_, _, _)
Replace(s, old, new) ==
    IF Len(s) < Len(old) THEN s
    ELSE IF StartsWith(s, old)
         THEN new \o Replace(Sub(s, Len(old) + 1, Len(s)), old, new)
    ELSE <<Head(s)>> \o Replace(Tail(s), old, new)
\* the other variant of a domain: domain.replace('www.', '') if the domain
\* starts with 'www.', else 'www.' + domain
Toggled(d) == IF StartsWith(d, Www) THEN Replace(d, Www, <<>>) ELSE Www \o d

\* the candidates with the http variant ahead of the https variant
candidate_urls_http_first(d) ==
    LET listed == << Http \o d,
                     Https \o d,
                     IF ~StartsWith(d, Www) THEN Http \o Www \o d ELSE None,
                     IF ~StartsWith(d, Www) THEN Https \o Www \o d ELSE None >>
    IN SelectSeq(listed, Truthy)

\* lines 416-424
candidate_urls(d) ==
    LET listed == << Https \o d,
                     Http \o d,
                     IF ~StartsWith(d, Www) THEN Https \o Www \o d ELSE None,
                     IF ~StartsWith(d, Www) THEN Http \o Www \o d ELSE None >>
    IN SelectSeq(listed, Truthy)

\* only 403 ends the attempts
IsTerminalStatus403Only(st) == st = "403"

\* status codes for which fetch_url returns None without another attempt
IsTerminalStatus(st) == st \in TerminalStatuses

Init ==
    /\ BatchIdle
    /\ StoreConstructed
    /\ domain \in Domains
    /\ up \in {{}, {Https \o Toggled(domain)}}
    /\ pc = "start"
    /\ result = [domain |-> domain, status |-> "pending", company_name |-> None]
    /\ urls = <<>>
    /\ ui = 0
    /\ phase = "home"
    /\ url = None
    /\ attempt = 0
    /\ lastStatus = "none"
    /\ content = None
    /\ homepage_url = None
    /\ homepage_content = None
    /\ policy_urls = <<>>
    /\ pj = 0
    /\ home_fetched = <<>>
    /\ policy_fetched = <<>>
    /\ first200 = None
    /\ raw_name = [b \in Bodies |-> extract_company_name_from_text(b)]
    /\ text_name = [b \in Bodies |->
                      IF extract_text_from_html(b) = ParserRejectedMarkup
                      THEN ParserRejectedMarkup
                      ELSE extract_company_name_from_text(extract_text_from_html(b))]
    /\ candidates = <<>>
    /\ best_candidate = None
    /\ clean_name = None
    /\ fn = "none"
    /\ args = <<>>
    /\ ret = None

\* lines 407-431: build the candidates and call fetch_url on the first
Start ==
    /\ pc = "start"
    /\ urls' = candidate_urls(domain)
    /\ ui' = 1
    /\ phase' = "home"
    /\ url' = candidate_urls(domain)[1]
    /\ attempt' = 0
    /\ home_fetched' = <<candidate_urls(domain)[1]>>
    /\ pc' = "fetch"
    /\ UNCHANGED <<domain, up, result, lastStatus, content, homepage_url,
                   homepage_content, policy_urls, pj, policy_fetched, first200>>
    /\ UNCHANGED aggVars
    /\ UNCHANGED callVars
    /\ UNCHANGED <<batchVars, storeVars>>

\* fetch_url returns value to the loop that called it
Return(value) ==
    /\ content' = value
    /\ pc' = IF phase = "home" THEN "home_ret" ELSE "policy_ret"

\* lines 124-127: a GET answered 200 with body b
Get200(b) ==
    /\ pc = "fetch"
    /\ attempt < max_retries
    /\ attempt' = attempt + 1
    /\ lastStatus' = OkStatus
    /\ Return(b)
    /\ first200' = IF phase = "home" /\ first200 = None THEN url ELSE first200
    /\ UNCHANGED <<domain, up, result, urls, ui, phase, url, homepage_url,
                   homepage_content, policy_urls, pj, home_fetched, policy_fetched>>
    /\ UNCHANGED aggVars
    /\ UNCHANGED callVars
    /\ UNCHANGED <<batchVars, storeVars>>

\* lines 128-147: a GET answered with another status, or raised
GetFailed(st) ==
    /\ pc = "fetch"
    /\ url \notin up
    /\ attempt < max_retries
    /\ attempt' = attempt + 1
    /\ lastStatus' = st
    /\ IF IsTerminalStatus(st) \/ attempt + 1 >= max_retries
       THEN Return(None)
       ELSE UNCHANGED <<content, pc>>
    /\ UNCHANGED <<domain, up, result, urls, ui, phase, url, homepage_url,
                   homepage_content, policy_urls, pj>>
    /\ UNCHANGED histVars
    /\ UNCHANGED aggVars
    /\ UNCHANGED callVars
    /\ UNCHANGED <<batchVars, storeVars>>

\* lines 432-435: the candidate gave content
HomepageFetched ==
    /\ pc = "home_ret"
    /\ Truthy(content)
    /\ homepage_url' = url
    /\ homepage_content' = content
    /\ pc' = "homepage_fetched"
    /\ UNCHANGED <<domain, up, result, urls, ui, phase, url, attempt, lastStatus,
                   content, policy_urls, pj>>
    /\ UNCHANGED histVars
    /\ UNCHANGED aggVars
    /\ UNCHANGED callVars
    /\ UNCHANGED <<batchVars, storeVars>>

\* lines 430-432: the candidate gave nothing, on to the next one
NextCandidate ==
    /\ pc = "home_ret"
    /\ ~Truthy(content)
    /\ ui < Len(urls)
    /\ ui' = ui + 1
    /\ url' = urls[ui + 1]
    /\ attempt' = 0
    /\ home_fetched' = Append(home_fetched, urls[ui + 1])
    /\ pc' = "fetch"
    /\ UNCHANGED <<domain, up, result, urls, phase, lastStatus, content, homepage_url,
                   homepage_content, policy_urls, pj, policy_fetched, first200>>
    /\ UNCHANGED aggVars
    /\ UNCHANGED callVars
    /\ UNCHANGED <<batchVars, storeVars>>

\* lines 437-440 without the assignment of line 439
UnreachableKeepsPending ==
    /\ pc = "home_ret"
    /\ ~Truthy(content)
    /\ ui >= Len(urls)
    /\ pc' = "done"
    /\ UNCHANGED <<domain, up, result, urls, ui, phase, url, attempt, lastStatus,
                   content, homepage_url, homepage_content, policy_urls, pj>>
    /\ UNCHANGED histVars
    /\ UNCHANGED aggVars
    /\ UNCHANGED callVars
    /\ UNCHANGED <<batchVars, storeVars>>

\* lines 437-440: no candidate gave content
Unreachable ==
    /\ pc = "home_ret"
    /\ ~Truthy(content)
    /\ ui >= Len(urls)
    /\ result' = [result EXCEPT !.status = "error"]
    /\ pc' = "done"
    /\ UNCHANGED <<domain, up, urls, ui, phase, url, attempt, lastStatus, content,
                   homepage_url, homepage_content, policy_urls, pj>>
    /\ UNCHANGED histVars
    /\ UNCHANGED aggVars
    /\ UNCHANGED callVars
    /\ UNCHANGED <<batchVars, storeVars>>

\* line 443: what the homepage yields
homepage_name(page) == raw_name[page]

\* lines 442-449: the homepage yields a name
NameFoundOnHomepage ==
    /\ pc = "homepage_fetched"
    /\ Truthy(homepage_name(homepage_content))
    /\ result' = [result EXCEPT !.status = "analyzed",
                                !.company_name = homepage_name(homepage_content)]
    /\ pc' = "done"
    /\ UNCHANGED <<domain, up, urls, ui, phase, url, attempt, lastStatus, content,
                   homepage_url, homepage_content, policy_urls, pj>>
    /\ UNCHANGED histVars
    /\ UNCHANGED aggVars
    /\ UNCHANGED callVars
    /\ UNCHANGED <<batchVars, storeVars>>

\* lines 442-457: the homepage yields no name; discover the policy URLs and call
\* fetch_url on the first (the list holds the common paths, so it is not empty)
PolicySearch ==
    /\ pc = "homepage_fetched"
    /\ ~Truthy(homepage_name(homepage_content))
    /\ policy_urls' = find_privacy_policy_url(homepage_url, homepage_content)
    /\ pj' = 1
    /\ phase' = "policy"
    /\ url' = policy_urls'[1]
    /\ attempt' = 0
    /\ policy_fetched' = <<policy_urls'[1]>>
    /\ pc' = "fetch"
    /\ UNCHANGED <<domain, up, result, urls, ui, lastStatus, content, homepage_url,
                   homepage_content, home_fetched, first200>>
    /\ UNCHANGED aggVars
    /\ UNCHANGED callVars
    /\ UNCHANGED <<batchVars, storeVars>>

\* lines 459-466: what a policy page yields: the raw content first, its text second
policy_page_name(page) ==
    IF ~Truthy(page) THEN None
    ELSE IF Truthy(raw_name[page]) THEN raw_name[page] ELSE text_name[page]

\* line 465 raises: nothing in extract_company_name catches the exception
PolicyPageRejected ==
    /\ pc = "policy_ret"
    /\ policy_page_name(content) = ParserRejectedMarkup
    /\ pc' = "raised"
    /\ UNCHANGED <<domain, up, result, urls, ui, phase, url, attempt, lastStatus,
                   content, homepage_url, homepage_content, policy_urls, pj>>
    /\ UNCHANGED histVars
    /\ UNCHANGED aggVars
    /\ UNCHANGED callVars
    /\ UNCHANGED <<batchVars, storeVars>>

\* lines 468-471: the policy page yields a name
NameFoundOnPolicyPage ==
    /\ pc = "policy_ret"
    /\ policy_page_name(content) # ParserRejectedMarkup
    /\ Truthy(policy_page_name(content))
    /\ result' = [result EXCEPT !.status = "analyzed",
                                !.company_name = policy_page_name(content)]
    /\ pc' = "done"
    /\ UNCHANGED <<domain, up, urls, ui, phase, url, attempt, lastStatus, content,
                   homepage_url, homepage_content, policy_urls, pj>>
    /\ UNCHANGED histVars
    /\ UNCHANGED aggVars
    /\ UNCHANGED callVars
    /\ UNCHANGED <<batchVars, storeVars>>

\* a loop that skips every other policy URL
next_policy_index_skipping(j) == j + 2

\* the index of the policy URL the loop of line 455 takes after index j
next_policy_index(j) == j + 1

\* lines 455-457: the policy page yields nothing, on to the next one
NextPolicyUrl ==
    /\ pc = "policy_ret"
    /\ policy_page_name(content) # ParserRejectedMarkup
    /\ ~Truthy(policy_page_name(content))
    /\ next_policy_index(pj) <= Len(policy_urls)
    /\ pj' = next_policy_index(pj)
    /\ url' = policy_urls[next_policy_index(pj)]
    /\ attempt' = 0
    /\ policy_fetched' = Append(policy_fetched, policy_urls[next_policy_index(pj)])
    /\ pc' = "fetch"
    /\ UNCHANGED <<domain, up, result, urls, ui, phase, lastStatus, content,
                   homepage_url, homepage_content, policy_urls, home_fetched,
                   first200>>
    /\ UNCHANGED aggVars
    /\ UNCHANGED callVars
    /\ UNCHANGED <<batchVars, storeVars>>

\* lines 473-475 without the assignment of line 474
NotFoundKeepsPending ==
    /\ pc = "policy_ret"
    /\ policy_page_name(content) # ParserRejectedMarkup
    /\ ~Truthy(policy_page_name(content))
    /\ next_policy_index(pj) > Len(policy_urls)
    /\ pc' = "done"
    /\ UNCHANGED <<domain, up, result, urls, ui, phase, url, attempt, lastStatus,
                   content, homepage_url, homepage_content, policy_urls, pj>>
    /\ UNCHANGED histVars
    /\ UNCHANGED aggVars
    /\ UNCHANGED callVars
    /\ UNCHANGED <<batchVars, storeVars>>

\* lines 473-475: no policy page yields a name
NotFound ==
    /\ pc = "policy_ret"
    /\ policy_page_name(content) # ParserRejectedMarkup
    /\ ~Truthy(policy_page_name(content))
    /\ next_policy_index(pj) > Len(policy_urls)
    /\ result' = [result EXCEPT !.status = "analyzed"]
    /\ pc' = "done"
    /\ UNCHANGED <<domain, up, urls, ui, phase, url, attempt, lastStatus, content,
                   homepage_url, homepage_content, policy_urls, pj>>
    /\ UNCHANGED histVars
    /\ UNCHANGED aggVars
    /\ UNCHANGED callVars
    /\ UNCHANGED <<batchVars, storeVars>>

Next ==
    \/ Start
    \/ \E b \in Bodies : Get200(b)
    \/ \E st \in TerminalStatuses \cup RetryStatuses : GetFailed(st)
    \/ HomepageFetched
    \/ NextCandidate
    \/ Unreachable
    \/ NameFoundOnHomepage
    \/ PolicySearch
    \/ NameFoundOnPolicyPage
    \/ PolicyPageRejected
    \/ NextPolicyUrl
    \/ NotFound

Spec == Init /\ [][Next]_vars

(***************************************************************************)
(* The aggregation of extract_company_name_from_text (lines 276-291) on    *)
(* its own: the validated candidates are drawn from a pool, in any order   *)
(* and number up to MaxCandidates.                                         *)
(***************************************************************************)
MaxCandidates == 3

OperatedBy == <<"o","p","e","r","a","t","e","d"," ","b","y"," ">>
PoolNames ==
    { <<"A","c","m","e"," ","L","t","d">>,
      <<"A","c","m","e"," ","I","n","c">>,
      <<"A","b"," ","L","t","d">>,
      <<"B","e","t","a"," ","C","o","r","p">>,
      <<"G","a","m","m","a"," ","G","m","b","H">> }
\* the names that the rules capture whole, as the only candidate, from the
\* sentence 'operated by <name>'
CandidatePool == {c \in PoolNames : Candidates(OperatedBy \o c) = <<c>>}

RECURSIVE SeqsUpTo(_, _)
SeqsUpTo(S, n) ==
    IF n = 0 THEN {<<>>}
    ELSE LET shorter == SeqsUpTo(S, n - 1)
         IN shorter \cup {Append(q, x) : q \in shorter, x \in S}

SelectInit ==
    /\ BatchIdle
    /\ StoreConstructed
    /\ domain = BareDomain
    /\ up = {}
    /\ pc = "select"
    /\ result = [domain |-> BareDomain, status |-> "pending", company_name |-> None]
    /\ urls = <<>>
    /\ ui = 0
    /\ phase = "home"
    /\ url = None
    /\ attempt = 0
    /\ lastStatus = "none"
    /\ content = None
    /\ homepage_url = None
    /\ homepage_content = None
    /\ policy_urls = <<>>
    /\ pj = 0
    /\ home_fetched = <<>>
    /\ policy_fetched = <<>>
    /\ first200 = None
    /\ raw_name = <<>>
    /\ text_name = <<>>
    /\ candidates \in SeqsUpTo(CandidatePool, MaxCandidates)
    /\ best_candidate = None
    /\ clean_name = None
    /\ fn = "none"
    /\ args = <<>>
    /\ ret = None

\* lines 276-293
Select ==
    /\ pc = "select"
    /\ best_candidate' = IF candidates = <<>> THEN None ELSE best_of(candidates)
    /\ clean_name' = select_best(candidates)
    /\ pc' = "selected"
    /\ UNCHANGED <<domain, up, result, urls, ui, phase, url, attempt, lastStatus,
                   content, homepage_url, homepage_content, policy_urls, pj,
                   candidates, raw_name, text_name>>
    /\ UNCHANGED histVars
    /\ UNCHANGED callVars
    /\ UNCHANGED <<batchVars, storeVars>>

SelectNext == Select

SpecSelect == SelectInit /\ [][SelectNext]_vars

(***************************************************************************)
(* The functions of CompanyNameExtractor called on their own: one call of  *)
(* one function on arguments drawn from the sets below, and, for the       *)
(* functions whose result is of the type of their argument, a second call  *)
(* on the result of the first.                                             *)
(***************************************************************************)
\* names without a legal suffix, and legal suffixes as they are written
BaseNames ==
    { <<"A","c","m","e">>,
      <<"Z","i","n","c">>,
      <<"B","e","t","a"," ","W","o","r","k","s">>,
      <<"C","a","f","é">> }
SuffixWords ==
    { <<"L","t","d">>,
      <<"L","i","m","i","t","e","d">>,
      <<"L","L","C">>,
      <<"I","n","c">>,
      <<"C","o","r","p">>,
      <<"C","o","r","p","o","r","a","t","i","o","n">>,
      <<"G","m","b","H">>,
      <<"B",".","V",".">>,
      <<"P","t","y"," ","L","t","d">>,
      <<"S",".","A",".">> }
NormalizeInputs == BaseNames \cup {n \o <<" ">> \o x : n \in BaseNames, x \in SuffixWords}

CleanInputs ==
    { <<"A","c","m","e"," ","L","t","d">>,
      <<"A","c","m","e"," ","I","n","c","."," ","H","o","m","e">>,
      <<"H","o","m","e","s","t","e","a","d"," ","L","t","d">>,
      <<"H","o","m","e">>,
      <<"<","b",">","A","c","m","e","<","/","b",">"," ","L","t","d",".">>,
      <<"A","c","m","e"," ","W","e","b","s","i","t","e">>,
      <<"A","b","o","u","t","f","a","c","e"," ","I","n","c">>,
      <<"a","c","m","e"," "," ","l","t","d",";">>,
      <<"A","c","m","e",NoBreakSpace,NoBreakSpace,"L","t","d","\f">> }

ValidateInputs ==
    { <<"P","r","i","v","a","c","y"," ","P","o","l","i","c","y">>,
      <<"P","R","I","V","A","C","Y"," ","P","O","L","I","C","Y">>,
      <<"p","r","i","v","a","c","y"," ","p","o","l","i","c","y">>,
      <<"A","c","m","e"," ","L","t","d">>,
      <<"O","u","r"," ","C","o","o","k","i","e"," ","P","o","l","i","c","y">>,
      <<"C","o","n","t","a","c","t"," ","U","s">>,
      <<"S","i","t","e","m","a","p">>,
      <<"A","l","l"," ","R","i","g","h","t","s"," ","R","e","s","e","r","v",
        "e","d">>,
      <<"T","e","r","m","s"," ","o","f"," ","S","e","r","v","i","c","e">>,
      <<"A","b","o","u","t"," ","U","s">>,
      <<"A","c","m","e"," ","P","r","i","v","a","c","y"," ","P","o","l","i",
        "c","y"," ","C","o","n","s","u","l","t","i","n","g"," ","L","t","d">>,
      <<"A","b">>,
      <<"2","0","2","3">>,
      <<"é","é","1">>,
      <<"C","O","O",KelvinSign,"I","E"," ","P","O","L","I","C","Y">>,
      <<"P","r",LatinSmallLetterDotlessI,"v","a","c","y"," ","P","o","l","i",
        "c","y">> }

UrlBases ==
    { <<"h","t","t","p","s",":","/","/","a",".","i","o">>,
      <<"h","t","t","p","s",":","/","/","a",".","i","o","/">>,
      <<"h","t","t","p","s",":","/","/","a",".","i","o","/","a","b","o","u",
        "t">>,
      <<"h","t","t","p","s",":","/","/","a",".","i","o","/","?","q","=","1",
        "#","t","o","p">> }
Hrefs ==
    { <<"/","p","r","i","v","a","c","y">>,
      <<"p","r","i","v","a","c","y">>,
      <<"h","t","t","p","s",":","/","/","b",".","i","o","/","p">>,
      <<"h","t","t","p",":","/","/","b",".","i","o","/","p">>,
      <<"p","/","q">> }

\* two links, the terms link ahead of the privacy link
TermsThenPrivacyPage ==
    <<"<","a"," ","h","r","e","f","=","\"","/","t","e","r","m","s","\"",">",
      "T","<","/","a",">","<","a"," ","h","r","e","f","=","\"","/","p","r",
      "i","v","a","c","y","\"",">","P","<","/","a",">">>
\* the same link twice
RepeatedLinkPage ==
    <<"<","a"," ","h","r","e","f","=","\"","/","l","e","g","a","l","\"",">",
      "L","<","/","a",">"," ","<","a"," ","h","r","e","f","=","\"","/","l",
      "e","g","a","l","\"",">","L","<","/","a",">">>
DiscoverInputs == {PlainPage, LinkPage, TermsThenPrivacyPage, RepeatedLinkPage}

\* markup written with character references
EscapedMarkupPage ==
    <<"&","l","t",";","b","&","g","t",";","A","c","m","e","&","l","t",";","/",
      "b","&","g","t",";"," ","L","t","d">>
HtmlInputs ==
    {PlainPage, MarkupPage, EscapedMarkupPage} \cup
    { <<" ","a"," "," ","b"," ">>,
      <<NoBreakSpace,"a",NoBreakSpace,"\f","b",NextLine>>,
      <<"<","s","c","r","i","p","t",">","x","<","/","s","c","r","i","p","t",
        ">","A","c","m","e">>,
      <<"<","p",">","a","<","/","p",">","<","p",">","b","<","/","p",">">>,
      \* a tag written inside a quoted attribute value
      <<"<","a"," ","t","i","t","l","e","=","\"","<","b",">","\"",">","t","<",
        "/","a",">">>,
      \* a tag written inside a comment
      <<"<","!","-","-"," ","<","b",">","x","<","/","b",">"," ","-","-",">",
        "y">>,
      \* a nav element inside a nav element, and an element of another name
      <<"<","n","a","v",">","<","n","a","v",">","a","<","/","n","a","v",">",
        "b","<","/","n","a","v",">","c","<","n","a","v","-","b","a","r",">",
        "d","<","/","n","a","v","-","b","a","r",">">> }

AcmeWidgetsNotice ==
    <<CopyrightSign," ","2","0","2","3"," ","A","c","m","e"," ","W","i","d",
      "g","e","t","s"," ","L","t","d","."," ","A","l","l"," ","r","i","g","h",
      "t","s"," ","r","e","s","e","r","v","e","d",".">>
PrivacyPolicyNotice ==
    <<CopyrightSign," ","2","0","2","3"," ","P","r","i","v","a","c","y"," ",
      "P","o","l","i","c","y">>
\* two candidates, the first made of legal suffixes only
SuffixOnlyNotice ==
    <<"o","p","e","r","a","t","e","d"," ","b","y"," ","I","n","c"," ","L","t",
      "d"," ","|"," ","p","o","w","e","r","e","d"," ","b","y"," ","A","c","m",
      "e"," ","I","n","c">>
\* one candidate, a boilerplate word with a legal suffix
HomeNotice ==
    <<CopyrightSign," ","2","0","2","3"," ","H","o","m","e"," ","L","t","d">>
\* a name written with a no-break space, after a year of Arabic-Indic digits
NoBreakNotice ==
    <<CopyrightSign," ","2","0",ArabicIndicDigitTwo,ArabicIndicDigitThree,
      NoBreakSpace,"A","c","m","e",NoBreakSpace,"L","t","d">>
TextInputs == {AcmeWidgetsNotice, PrivacyPolicyNotice, NamedPage, DeltaPage, PlainPage,
               SuffixOnlyNotice, HomeNotice, NoBreakNotice}

CallInputs ==
    {<<"_normalize_company_name", <<n>> >> : n \in NormalizeInputs}
    \cup {<<"_clean_company_name", <<n>> >> : n \in CleanInputs}
    \cup {<<"_validate_company_name", <<n>> >> : n \in ValidateInputs}
    \cup {<<"normalize_url", <<b, h>> >> : b \in UrlBases, h \in Hrefs}
    \cup {<<"find_privacy_policy_url", <<Https \o BareDomain, c>> >> : c \in DiscoverInputs}
    \cup {<<"extract_text_from_html", <<h>> >> : h \in HtmlInputs}
    \cup {<<"extract_company_name_from_text", <<t>> >> : t \in TextInputs}

\* the variables of extract_company_name, which a call on its own leaves alone
orchVars == <<domain, up, result, urls, ui, phase, url, attempt, lastStatus, content,
              homepage_url, homepage_content, policy_urls, pj>>

CallInit ==
    /\ BatchIdle
    /\ StoreConstructed
    /\ domain = BareDomain
    /\ up = {}
    /\ pc = "call"
    /\ result = [domain |-> BareDomain, status |-> "pending", company_name |-> None]
    /\ urls = <<>>
    /\ ui = 0
    /\ phase = "home"
    /\ url = None
    /\ attempt = 0
    /\ lastStatus = "none"
    /\ content = None
    /\ homepage_url = None
    /\ homepage_content = None
    /\ policy_urls = <<>>
    /\ pj = 0
    /\ home_fetched = <<>>
    /\ policy_fetched = <<>>
    /\ first200 = None
    /\ raw_name = <<>>
    /\ text_name = <<>>
    /\ candidates = <<>>
    /\ best_candidate = None
    /\ clean_name = None
    /\ \E c \in CallInputs : fn = c[1] /\ args = c[2]
    /\ ret = None

\* the call returns value
Returns(value) ==
    /\ ret' = value
    /\ pc' = "returned"
    /\ UNCHANGED <<fn, args>>
    /\ UNCHANGED <<orchVars, histVars, raw_name, text_name>>
    /\ UNCHANGED <<batchVars, storeVars>>

\* the function is called again, on the value it returned
CalledAgainOn(arguments, value) ==
    /\ args' = arguments
    /\ ret' = value
    /\ pc' = "returned_again"
    /\ UNCHANGED fn
    /\ UNCHANGED <<orchVars, histVars, aggVars>>
    /\ UNCHANGED <<batchVars, storeVars>>

NormalizeCompanyName ==
    /\ pc = "call" /\ fn = "_normalize_company_name"
    /\ Returns(normalize_company_name(args[1]))
    /\ UNCHANGED <<candidates, best_candidate, clean_name>>

CleanCompanyName ==
    /\ pc = "call" /\ fn = "_clean_company_name"
    /\ Returns(clean_company_name(args[1]))
    /\ UNCHANGED <<candidates, best_candidate, clean_name>>

CleanCompanyNameAgain ==
    /\ pc = "returned" /\ fn = "_clean_company_name"
    /\ CalledAgainOn(<<ret>>, clean_company_name(ret))

ValidateCompanyName ==
    /\ pc = "call" /\ fn = "_validate_company_name"
    /\ Returns(validate_company_name(args[1]))
    /\ UNCHANGED <<candidates, best_candidate, clean_name>>

NormalizeUrl ==
    /\ pc = "call" /\ fn = "normalize_url"
    /\ Returns(normalize_url(args[1], args[2]))
    /\ UNCHANGED <<candidates, best_candidate, clean_name>>

NormalizeUrlAgain ==
    /\ pc = "returned" /\ fn = "normalize_url"
    /\ CalledAgainOn(<<args[1], ret>>, normalize_url(args[1], ret))

FindPrivacyPolicyUrl ==
    /\ pc = "call" /\ fn = "find_privacy_policy_url"
    /\ Returns(find_privacy_policy_url(args[1], args[2]))
    /\ UNCHANGED <<candidates, best_candidate, clean_name>>

ExtractTextFromHtml ==
    /\ pc = "call" /\ fn = "extract_text_from_html"
    /\ Returns(extract_text_from_html(args[1]))
    /\ UNCHANGED <<candidates, best_candidate, clean_name>>

ExtractTextFromHtmlAgain ==
    /\ pc = "returned" /\ fn = "extract_text_from_html"
    /\ ret # ParserRejectedMarkup
    /\ CalledAgainOn(<<ret>>, extract_text_from_html(ret))

\* lines 260-293, for a text that is not empty
ExtractCompanyNameFromText ==
    /\ pc = "call" /\ fn = "extract_company_name_from_text"
    /\ LET found == Candidates(args[1])
       IN /\ candidates' = found
          /\ best_candidate' = IF found = <<>> THEN None ELSE best_of(found)
          /\ clean_name' = select_best(found)
          /\ Returns(select_best(found))

CallNext ==
    \/ NormalizeCompanyName
    \/ CleanCompanyName
    \/ CleanCompanyNameAgain
    \/ ValidateCompanyName
    \/ NormalizeUrl
    \/ NormalizeUrlAgain
    \/ FindPrivacyPolicyUrl
    \/ ExtractTextFromHtml
    \/ ExtractTextFromHtmlAgain
    \/ ExtractCompanyNameFromText

SpecCall == CallInit /\ [][CallNext]_vars

(***************************************************************************)
(* The batch tools: extract_from_domains (src/run_extractor.py),           *)
(* test_extraction (src/test_extractor.py) and                             *)
(* SimplifiedAnalyzer.analyze_domains (src/simplified_analyzer.py).  The   *)
(* extraction of one domain is a step whose outcome the environment        *)
(* chooses: a result dict, or an exception; writing the output file either *)
(* succeeds or raises.                                                     *)
(***************************************************************************)
MaxDomains == 3

BatchTools == {"extract_from_domains", "test_extraction", "analyze_domains"}
AcmeLtd == <<"A","c","m","e"," ","L","t","d">>
\* str(e) of the exception the handler caught
ExceptionText == <<"e">>

\* the dicts extract_company_name (company_name_extractor.py lines 408-475) and
\* analyze_domain (simplified_analyzer.py lines 133-149) return for domain d;
\* error is None where the dict has no key "error"
ExtractionResults(d) ==
    { [domain |-> d, status |-> Error, company_name |-> None, error |-> None],
      [domain |-> d, status |-> Analyzed, company_name |-> None, error |-> None],
      [domain |-> d, status |-> Analyzed, company_name |-> AcmeLtd, error |-> None] }

\* the dict the exception handler appends
ErrorEntry(d) ==
    [domain |-> d, status |-> Error, company_name |-> None, error |-> ExceptionText]

\* whether the tool writes the output file
SavesProgress == tool = "test_extraction" \/ (tool = "extract_from_domains" /\ output_file)

\* what the output file holds after json.dump(results, f) (the list results as
\* JSON), and after open or json.dump raised: what it held if open raised, a
\* part of the JSON text if json.dump did
Dumped(r) == [json |-> "whole", of |-> r]
PartlyWritten == [json |-> "part", of |-> <<>>]
FailedWrite == {written, PartlyWritten}
\* where the tool goes on when its loop has ended: run_extractor.py line 60,
\* test_extractor.py line 54, simplified_analyzer.py line 164
AfterLoop ==
    IF tool = "extract_from_domains"
    THEN (IF output_file THEN "batch_final_save" ELSE "batch_summary")
    ELSE IF tool = "test_extraction" THEN "batch_summary"
    ELSE "batch_return"

BatchInit ==
    /\ domain = BareDomain
    /\ up = {}
    /\ result = [domain |-> BareDomain, status |-> "pending", company_name |-> None]
    /\ urls = <<>>
    /\ ui = 0
    /\ phase = "home"
    /\ url = None
    /\ attempt = 0
    /\ lastStatus = "none"
    /\ content = None
    /\ homepage_url = None
    /\ homepage_content = None
    /\ policy_urls = <<>>
    /\ pj = 0
    /\ home_fetched = <<>>
    /\ policy_fetched = <<>>
    /\ first200 = None
    /\ raw_name = <<>>
    /\ text_name = <<>>
    /\ candidates = <<>>
    /\ best_candidate = None
    /\ clean_name = None
    /\ fn = "none"
    /\ args = <<>>
    /\ ret = None
    /\ StoreConstructed
    /\ tool \in BatchTools
    /\ domains \in SeqsUpTo(Domains, MaxDomains)
    /\ output_file \in (IF tool = "extract_from_domains" THEN BOOLEAN
                        ELSE {tool = "test_extraction"})
    /\ pc = IF domains = <<>> THEN AfterLoop ELSE "batch_extract"
    /\ di = 1
    /\ results = <<>>
    /\ slept = <<>>
    /\ processed = <<>>
    /\ written = NotWritten

\* what a step of a batch leaves alone
BatchFrame ==
    /\ UNCHANGED <<domain, up, result, urls, ui, phase, url, attempt, lastStatus,
                   content, homepage_url, homepage_content, policy_urls, pj>>
    /\ UNCHANGED <<histVars, aggVars, callVars, storeVars>>
    /\ UNCHANGED <<tool, domains, output_file>>

\* the for statement takes the next domain, or the loop ends
NextDomain ==
    /\ di' = di + 1
    /\ pc' = IF di < Len(domains) THEN "batch_extract" ELSE AfterLoop

\* run_extractor.py lines 32-33, test_extractor.py lines 27-28,
\* simplified_analyzer.py lines 159-160: the extraction returns r
ExtractReturns(r) ==
    /\ pc = "batch_extract"
    /\ r \in ExtractionResults(domains[di])
    /\ processed' = Append(processed, domains[di])
    /\ results' = Append(results, r)
    /\ pc' = IF SavesProgress THEN "batch_save" ELSE "batch_delay"
    /\ UNCHANGED <<di, slept, written>>
    /\ BatchFrame

\* run_extractor.py line 32, test_extractor.py line 27: extract_company_name
\* raises; analyze_domain raises nothing
ExtractRaises ==
    /\ pc = "batch_extract"
    /\ tool # "analyze_domains"
    /\ processed' = Append(processed, domains[di])
    /\ pc' = "batch_except"
    /\ UNCHANGED <<di, results, slept, written>>
    /\ BatchFrame

\* run_extractor.py lines 40-42, test_extractor.py lines 35-36
ProgressSaved ==
    /\ pc = "batch_save"
    /\ written' = Dumped(results)
    /\ pc' = "batch_delay"
    /\ UNCHANGED <<di, results, slept, processed>>
    /\ BatchFrame

\* the same, open or json.dump raises
ProgressSaveRaises ==
    /\ pc = "batch_save"
    /\ written' \in FailedWrite
    /\ pc' = "batch_except"
    /\ UNCHANGED <<di, results, slept, processed>>
    /\ BatchFrame

\* run_extractor.py lines 45-48 (no delay after the last domain),
\* test_extractor.py lines 39-41, simplified_analyzer.py line 162
Delay ==
    /\ pc = "batch_delay"
    /\ slept' = IF tool = "extract_from_domains" /\ ~(di < Len(domains))
                THEN slept
                ELSE Append(slept, di)
    /\ NextDomain
    /\ UNCHANGED <<results, processed, written>>
    /\ BatchFrame

\* an exception handler that ends the batch
ExceptionAborts ==
    /\ pc = "batch_except"
    /\ pc' = "finished"
    /\ UNCHANGED <<di, results, slept, processed, written>>
    /\ BatchFrame

\* run_extractor.py lines 50-57, test_extractor.py lines 43-51
ExceptionCaught ==
    /\ pc = "batch_except"
    /\ results' = Append(results, ErrorEntry(domains[di]))
    /\ NextDomain
    /\ UNCHANGED <<slept, processed, written>>
    /\ BatchFrame

\* run_extractor.py lines 60-63, test_extractor.py lines 65-68: the results
\* are written to the output file; extract_from_domains prints its summary
\* afterwards, test_extraction has printed it before
FinalSave ==
    /\ pc = "batch_final_save"
    /\ written' = Dumped(results)
    /\ pc' = IF tool = "extract_from_domains" THEN "batch_summary" ELSE "batch_return"
    /\ UNCHANGED <<di, results, slept, processed>>
    /\ BatchFrame

\* the same, open or json.dump raises, outside every try
FinalSaveRaises ==
    /\ pc = "batch_final_save"
    /\ written' \in FailedWrite
    /\ pc' = "save_raised"
    /\ UNCHANGED <<di, results, slept, processed>>
    /\ BatchFrame

\* run_extractor.py lines 66-74, test_extractor.py lines 54-62: the summary;
\* its percentages divide by len(domains)
Summary ==
    /\ pc = "batch_summary"
    /\ Len(domains) # 0
    /\ pc' = IF tool = "extract_from_domains" THEN "batch_return" ELSE "batch_final_save"
    /\ UNCHANGED <<di, results, slept, processed, written>>
    /\ BatchFrame

\* run_extractor.py line 72, test_extractor.py line 60: ZeroDivisionError,
\* outside every try, when the list of domains is empty
SummaryRaises ==
    /\ pc = "batch_summary"
    /\ Len(domains) = 0
    /\ pc' = "summary_raised"
    /\ UNCHANGED <<di, results, slept, processed, written>>
    /\ BatchFrame

\* run_extractor.py line 76, test_extractor.py line 70,
\* simplified_analyzer.py line 164: return results
ReturnResults ==
    /\ pc = "batch_return"
    /\ pc' = "finished"
    /\ UNCHANGED <<di, results, slept, processed, written>>
    /\ BatchFrame

\* run_extractor.py lines 66-68, test_extractor.py lines 54-56
success_count ==
    Cardinality({k \in DOMAIN results :
                   results[k].status = Analyzed /\ Truthy(results[k].company_name)})
error_count == Cardinality({k \in DOMAIN results : results[k].status = Error})
not_found_count ==
    Cardinality({k \in DOMAIN results :
                   results[k].status = Analyzed /\ ~Truthy(results[k].company_name)})

BatchNext ==
    \/ \E r \in UNION {ExtractionResults(d) : d \in Domains} : ExtractReturns(r)
    \/ ExtractRaises
    \/ ProgressSaved
    \/ ProgressSaveRaises
    \/ Delay
    \/ ExceptionCaught
    \/ FinalSave
    \/ FinalSaveRaises
    \/ Summary
    \/ SummaryRaises
    \/ ReturnResults

SpecBatch == BatchInit /\ [][BatchNext]_vars

(***************************************************************************)
(* The domain store: MockDatabase (src/mock_db.py) in memory mode, as      *)
(* src/domain_api.py and src/worker.py construct it, and the handler       *)
(* analyze_domain_real of src/domain_api.py.  A dict is an object of the   *)
(* heap, and a list is a sequence of references to such objects: a copy of *)
(* a list holds the same objects.  An operation is a sequence of steps of  *)
(* one thread: each step reads or writes the class attribute               *)
(* _domains_cache, or one field of one dict, once.  No operation takes a   *)
(* lock, so the steps of two threads interleave in every way.              *)
(***************************************************************************)
MaxOps == 3

NewDomain == <<"n","e","w",".","i","o">>
ContactUrl == <<"h","t","t","p","s",":","/","/","a",".","i","o","/","c","o","n","t",
        "a","c","t">>
StoreDomains == {EttaLoves, NewDomain}
True == "True"
False == "False"

AddOps ==
    { [name |-> "add_domain", domain |-> d, status |-> None, company_name |-> None,
       contact_url |-> None] : d \in StoreDomains }
UpdateOps ==
    { [name |-> "update_domain", domain |-> d, status |-> a[1],
       company_name |-> a[2], contact_url |-> a[3]] :
        d \in StoreDomains,
        a \in { <<Analyzed, AcmeLtd, None>>, <<None, None, ContactUrl>> } }
DeleteOps ==
    { [name |-> "delete_domain", domain |-> d, status |-> None,
       company_name |-> None, contact_url |-> None] : d \in StoreDomains }
\* GET /api/analyze/<domain>: status and company_name are those of the dict
\* analyzer.analyze_domain returned (simplified_analyzer.py lines 133-149)
AnalyzeOps ==
    { [name |-> "analyze_domain_real", domain |-> r.domain, status |-> r.status,
       company_name |-> r.company_name, contact_url |-> None] :
        r \in UNION {ExtractionResults(d) : d \in StoreDomains} }
StoreOps == AddOps \cup UpdateOps \cup DeleteOps \cup AnalyzeOps

\* the position in list q of the first dict whose domain is d, or 0
FirstIndexOf(q, d) ==
    LET hits == {k \in DOMAIN q : heap[q[k]].domain = d}
    IN IF hits = {} THEN 0 ELSE MinOf(hits)

\* the reference that is no object: None where a dict is expected
NoRef == 0

\* lines 94-108: the dict of domain d in the store, as a reference, or None
get_domain(d) ==
    IF FirstIndexOf(domains_cache, d) = 0 THEN NoRef
    ELSE domains_cache[FirstIndexOf(domains_cache, d)]

\* the records a list of references holds
ValuesOf(q) == [k \in DOMAIN q |-> heap[q[k]]]

StoreInit ==
    /\ domain = BareDomain
    /\ up = {}
    /\ pc = "store"
    /\ result = [domain |-> BareDomain, status |-> "pending", company_name |-> None]
    /\ urls = <<>>
    /\ ui = 0
    /\ phase = "home"
    /\ url = None
    /\ attempt = 0
    /\ lastStatus = "none"
    /\ content = None
    /\ homepage_url = None
    /\ homepage_content = None
    /\ policy_urls = <<>>
    /\ pj = 0
    /\ home_fetched = <<>>
    /\ policy_fetched = <<>>
    /\ first200 = None
    /\ raw_name = <<>>
    /\ text_name = <<>>
    /\ candidates = <<>>
    /\ best_candidate = None
    /\ clean_name = None
    /\ fn = "none"
    /\ args = <<>>
    /\ ret = None
    /\ BatchIdle
    /\ StoreConstructed

\* what a step of the store leaves alone
StoreFrame ==
    /\ UNCHANGED <<domain, up, pc, result, urls, ui, phase, url, attempt, lastStatus,
                   content, homepage_url, homepage_content, policy_urls, pj>>
    /\ UNCHANGED <<histVars, aggVars, callVars, batchVars>>

\* the first step of an operation
FirstStep(name) ==
    CASE name = "add_domain" -> "add_check"
      [] name = "update_domain" -> "upd_read"
      [] name = "delete_domain" -> "del_read"
      [] name = "analyze_domain_real" -> "an_get"

\* thread t begins operation o
Begin(t, o) ==
    /\ op' = [op EXCEPT ![t] = o]
    /\ tpc' = [tpc EXCEPT ![t] = FirstStep(o.name)]
    /\ tret' = [tret EXCEPT ![t] = "none"]
    /\ prior' = [prior EXCEPT ![t] = [cache |-> domains_cache, heap |-> heap]]
    /\ nops' = nops + 1
    /\ UNCHANGED <<heap, domains_cache, snapshot, snapshot_seen, local>>
    /\ StoreFrame

\* a caller makes its calls one at a time: the next one after the one before
\* has returned
Call(t, o) ==
    /\ tpc[t] \in {"idle", "returned"}
    /\ nops < MaxOps
    /\ Begin(t, o)

\* a request handler is started in a thread of its own (domain_api.py line
\* 270: the development server of Flask serves each request in a new thread)
\* and calls the store (domain_api.py lines 110, 127).  The handlers that
\* make several calls (update_all_domains, domain_api.py lines 141-183;
\* analyze_all_domains_real, lines 223-261; process_domains_once, worker.py
\* lines 16-77) call update_domain once for each domain of their list, one
\* call after the other, while the other thread makes its own calls
Request(t, o) ==
    /\ \/ tpc[t] = "idle"
       \/ /\ tpc[t] = "returned"
          /\ op[t].name = "update_domain"
          /\ o \in UpdateOps
    /\ nops < MaxOps
    /\ Begin(t, o)

\* thread t goes to step next, and returns value if next is "returned"
Goes(t, next, value) ==
    /\ tpc' = [tpc EXCEPT ![t] = next]
    /\ tret' = [tret EXCEPT ![t] = value]

\* where add_domain returns to: line 197 of the handler, or the caller
AfterAdd(t) == IF op[t].name = "analyze_domain_real" THEN "upd_read" ELSE "returned"

\* an existence check that finds nothing
AddCheckFindsNothing(t) ==
    /\ tpc[t] = "add_check"
    /\ Goes(t, "add_read", tret[t])
    /\ UNCHANGED <<heap, domains_cache, snapshot, snapshot_seen, op, local, prior, nops>>
    /\ StoreFrame

\* mock_db.py lines 116-118
AddCheck(t) ==
    /\ tpc[t] = "add_check"
    /\ IF get_domain(op[t].domain) # NoRef
       THEN Goes(t, AfterAdd(t), False)
       ELSE Goes(t, "add_read", tret[t])
    /\ UNCHANGED <<heap, domains_cache, snapshot, snapshot_seen, op, local, prior, nops>>
    /\ StoreFrame

\* mock_db.py line 121
AddRead(t) ==
    /\ tpc[t] = "add_read"
    /\ local' = [local EXCEPT ![t] = domains_cache]
    /\ Goes(t, "add_write", tret[t])
    /\ UNCHANGED <<heap, domains_cache, snapshot, snapshot_seen, op, prior, nops>>
    /\ StoreFrame

\* mock_db.py lines 124-152
AddWrite(t) ==
    /\ tpc[t] = "add_write"
    /\ heap' = Append(heap, Record(op[t].domain, Pending, None, None, Now))
    /\ local' = [local EXCEPT ![t] = Append(local[t], Len(heap) + 1)]
    /\ domains_cache' = local'[t]
    /\ Goes(t, AfterAdd(t), True)
    /\ UNCHANGED <<snapshot, snapshot_seen, op, prior, nops>>
    /\ StoreFrame

\* mock_db.py line 164
UpdRead(t) ==
    /\ tpc[t] = "upd_read"
    /\ local' = [local EXCEPT ![t] = domains_cache]
    /\ Goes(t, "upd_find", tret[t])
    /\ UNCHANGED <<heap, domains_cache, snapshot, snapshot_seen, op, prior, nops>>
    /\ StoreFrame

\* mock_db.py lines 170-176: the fields of dict d after the update
Updated(d, o) ==
    [d EXCEPT !.status = IF Truthy(o.status) THEN o.status ELSE @,
              !.company_name = IF o.company_name # None THEN o.company_name ELSE @,
              !.contact_url = IF o.contact_url # None THEN o.contact_url ELSE @,
              !.last_updated = Now]

\* the dict update_domain found: the first of its list with the domain
Found(t) == local[t][FirstIndexOf(local[t], op[t].domain)]
\* a step of update_domain that writes one field of the dict it found, if
\* asked is true, and goes on to step next
UpdField(t, at, asked, d, next) ==
    /\ tpc[t] = at
    /\ heap' = IF asked THEN [heap EXCEPT ![Found(t)] = d] ELSE heap
    /\ Goes(t, next, tret[t])
    /\ UNCHANGED <<domains_cache, snapshot, snapshot_seen, op, local, prior, nops>>
    /\ StoreFrame
\* mock_db.py lines 168-169, and lines 197-200 when no dict has the domain
UpdFind(t) ==
    /\ tpc[t] = "upd_find"
    /\ IF FirstIndexOf(local[t], op[t].domain) = 0
       THEN Goes(t, "returned", False)
       ELSE Goes(t, "upd_status", tret[t])
    /\ UNCHANGED <<heap, domains_cache, snapshot, snapshot_seen, op, local, prior, nops>>
    /\ StoreFrame
\* mock_db.py lines 170-171
UpdStatus(t) ==
    UpdField(t, "upd_status", Truthy(op[t].status),
             [heap[Found(t)] EXCEPT !.status = op[t].status], "upd_company_name")
\* mock_db.py lines 172-173
UpdCompanyName(t) ==
    UpdField(t, "upd_company_name", op[t].company_name # None,
             [heap[Found(t)] EXCEPT !.company_name = op[t].company_name],
             "upd_contact_url")
\* mock_db.py lines 174-175
UpdContactUrl(t) ==
    UpdField(t, "upd_contact_url", op[t].contact_url # None,
             [heap[Found(t)] EXCEPT !.contact_url = op[t].contact_url],
             "upd_last_updated")
\* mock_db.py lines 176-178
UpdLastUpdated(t) ==
    UpdField(t, "upd_last_updated", TRUE,
             [heap[Found(t)] EXCEPT !.last_updated = Now], "upd_write")

\* mock_db.py lines 181-200
UpdWrite(t) ==
    /\ tpc[t] = "upd_write"
    /\ domains_cache' = local[t]
    /\ Goes(t, "returned", True)
    /\ UNCHANGED <<heap, snapshot, snapshot_seen, op, local, prior, nops>>
    /\ StoreFrame

\* mock_db.py lines 212-213
DelRead(t) ==
    /\ tpc[t] = "del_read"
    /\ local' = [local EXCEPT ![t] = domains_cache]
    /\ Goes(t, "del_write", tret[t])
    /\ UNCHANGED <<heap, domains_cache, snapshot, snapshot_seen, op, prior, nops>>
    /\ StoreFrame

\* mock_db.py lines 216-238
DelWrite(t) ==
    /\ tpc[t] = "del_write"
    /\ LET Kept(ref) == heap[ref].domain # op[t].domain
           filtered == SelectSeq(local[t], Kept)
       IN /\ local' = [local EXCEPT ![t] = filtered]
          /\ IF Len(filtered) < Len(local[t])
             THEN /\ domains_cache' = filtered
                  /\ Goes(t, "returned", True)
             ELSE /\ UNCHANGED domains_cache
                  /\ Goes(t, "returned", False)
    /\ UNCHANGED <<heap, snapshot, snapshot_seen, op, prior, nops>>
    /\ StoreFrame

\* domain_api.py lines 195-197
AnGet(t) ==
    /\ tpc[t] = "an_get"
    /\ Goes(t, IF get_domain(op[t].domain) # NoRef THEN "upd_read" ELSE "add_check",
            tret[t])
    /\ UNCHANGED <<heap, domains_cache, snapshot, snapshot_seen, op, local, prior, nops>>
    /\ StoreFrame

\* no operation is under way
Quiet == \A t \in Threads : tpc[t] \in {"idle", "returned"}

\* mock_db.py lines 73-75: a caller gets the list of the store (domain_api.py
\* line 46)
GetAllDomains ==
    /\ snapshot = <<>>
    /\ snapshot' = domains_cache
    /\ snapshot_seen' = ValuesOf(domains_cache)
    /\ UNCHANGED <<heap, domains_cache, op, tpc, local, tret, prior, nops>>
    /\ StoreFrame

\* mock_db.py lines 98-102: a caller gets the dict of domain d (domain_api.py
\* line 87)
GetDomain(d) ==
    /\ snapshot = <<>>
    /\ get_domain(d) # NoRef
    /\ snapshot' = <<get_domain(d)>>
    /\ snapshot_seen' = <<heap[get_domain(d)]>>
    /\ UNCHANGED <<heap, domains_cache, op, tpc, local, tret, prior, nops>>
    /\ StoreFrame

\* the steps of the operation of thread t
Step(t) ==
    \/ AddCheck(t)
    \/ AddRead(t)
    \/ AddWrite(t)
    \/ UpdRead(t)
    \/ UpdFind(t)
    \/ UpdStatus(t)
    \/ UpdCompanyName(t)
    \/ UpdContactUrl(t)
    \/ UpdLastUpdated(t)
    \/ UpdWrite(t)
    \/ DelRead(t)
    \/ DelWrite(t)
    \/ AnGet(t)

\* one caller, one call at a time: it reads the store between two calls
StoreNext ==
    \/ \E o \in StoreOps : Call(1, o)
    \/ Step(1)
    \/ Quiet /\ GetAllDomains
    \/ \E d \in StoreDomains : Quiet /\ GetDomain(d)

SpecStore == StoreInit /\ [][StoreNext]_vars

\* two request handlers, or the worker and a request handler, each making
\* its calls, and a third handler that reads the store at any moment
ConcurrentNext ==
    \/ \E t \in Threads, o \in StoreOps : Request(t, o)
    \/ \E t \in Threads : Step(t)
    \/ GetAllDomains
    \/ \E d \in StoreDomains : GetDomain(d)

SpecStoreConcurrent == StoreInit /\ [][ConcurrentNext]_vars

(***************************************************************************)
(* Properties.                                                             *)
(***************************************************************************)
IsPrefix(a, b) == Len(a) <= Len(b) /\ Sub(b, 1, Len(a)) = a
Returned == pc = "done"
\* the candidate order of the Page Fetcher: https before http, the domain as
\* given before the www-toggled one
VariantOrder(d) == <<Https \o d, Http \o d, Https \o Toggled(d), Http \o Toggled(d)>>
\* a returned name is well formed
WellFormedName(name) == name = None \/ (Len(name) >= MinNameLen /\ HasLetter(name))

\* C1: if no candidate homepage URL ever answers 200, the result returned has
\* status 'error' and company_name None, and no policy page was requested.
C1_UnreachableIsError ==
    (Returned /\ first200 = None) =>
        /\ result.status = "error"
        /\ result.company_name = None
        /\ policy_fetched = <<>>
C1_Witness ==
    /\ Returned
    /\ first200 = None
    /\ home_fetched = VariantOrder(BareDomain)
    /\ lastStatus \in RetryStatuses
    /\ result.status = "error"

\* C2: a returned result has status 'analyzed' or 'error', never 'pending'; with
\* a homepage obtained the status is 'analyzed', also when no page yields a name.
C2_StatusAnalyzedOrError ==
    Returned =>
        /\ result.status \in {"analyzed", "error"}
        /\ homepage_content # None => result.status = "analyzed"
C2_Witness ==
    /\ Returned
    /\ homepage_content # None
    /\ ~Truthy(raw_name[homepage_content])
    /\ policy_fetched = policy_urls
    /\ result = [domain |-> domain, status |-> "analyzed", company_name |-> None]

\* C3: the company_name of a returned result is None or a string of at least 3
\* characters with at least one letter.
C3_NameWellFormed == Returned => WellFormedName(result.company_name)

\* C4: the homepage fetch reports Unreachable only if every candidate variant was
\* tried and none ever answered 200; a 200 answer to a candidate ends the search:
\* no later candidate is requested, and that URL and its body become the homepage.
C4_OkEndsSearch ==
    /\ (Returned /\ result.status = "error") =>
          (first200 = None /\ home_fetched = VariantOrder(domain))
    /\ first200 # None =>
          /\ home_fetched[Len(home_fetched)] = first200
          /\ pc \notin {"fetch", "home_ret"} => homepage_url = first200
    /\ pc = "homepage_fetched" => homepage_content = content

\* C5: the homepage candidates are requested in the order https://domain,
\* http://domain, https://toggled, http://toggled, and a candidate is requested
\* only after the one before it has failed.
C5_CandidateOrder ==
    [][ /\ IsPrefix(home_fetched', VariantOrder(domain))
        /\ (home_fetched' # home_fetched /\ home_fetched # <<>>) =>
              (pc = "home_ret" /\ ~Truthy(content)) ]_vars
C5_Witness ==
    /\ home_fetched = VariantOrder(BareDomain)
    /\ pc = "fetch"
    /\ lastStatus \in TerminalStatuses

\* C6: for a domain that starts with 'www.', whose https://www. and http://www.
\* variants fail and whose www-stripped https variant answers 200, the result is
\* not 'error' and the www-stripped https URL is the base URL.
C6_WwwStripped ==
    ( /\ Returned
      /\ StartsWith(domain, Www)
      /\ {Https \o domain, Http \o domain} \subseteq Range(home_fetched)
      /\ first200 \notin {Https \o domain, Http \o domain}
      /\ Https \o Toggled(domain) \in up ) =>
        /\ result.status # "error"
        /\ homepage_url = Https \o Toggled(domain)

\* C7: one call of fetch_url issues at most max_retries GET requests; a 403 or a
\* 404 ends the call at once, and the orchestrator goes on to the next candidate;
\* any other failure is retried until max_retries requests were made.
C7_Retries ==
    [][ LET requested == attempt' = attempt + 1
            returned == pc' \in {"home_ret", "policy_ret"} /\ content' = None
        IN /\ attempt' <= max_retries
           /\ (requested /\ lastStatus' \in TerminalStatuses) => returned
           /\ (requested /\ lastStatus' \in RetryStatuses) =>
                 IF attempt' < max_retries
                 THEN pc' = "fetch" /\ url' = url
                 ELSE returned
           /\ (pc = "home_ret" /\ lastStatus \in TerminalStatuses /\ ui < Len(urls)) =>
                 (pc' = "fetch" /\ url' = urls[ui + 1] /\ attempt' = 0) ]_vars
C7_Witness ==
    /\ pc = "fetch"
    /\ ui = 2
    /\ home_fetched = <<Https \o domain, Http \o domain>>
    /\ lastStatus = "404"
    /\ attempt = 0

\* what an extraction gave is a name: a string that is not empty
IsName(x) == x # ParserRejectedMarkup /\ Truthy(x)
\* C8: when the homepage yields a name no secondary URL is requested; otherwise
\* the secondary URLs are requested in the order of the Link Discoverer's list,
\* the next one only after the one before yielded no name, and the first name a
\* secondary page yields is the result.
C8_PolicyOrder ==
    [][ /\ IsPrefix(policy_fetched', policy_urls')
        /\ policy_urls' # policy_urls =>
              policy_urls' = find_privacy_policy_url(homepage_url, homepage_content)
        /\ (pc = "homepage_fetched" /\ Truthy(raw_name[homepage_content])) =>
              (pc' = "done" /\ policy_fetched' = <<>>
               /\ result'.company_name = raw_name[homepage_content])
        /\ (policy_fetched' # policy_fetched /\ policy_fetched # <<>>) =>
              (pc = "policy_ret" /\ ~IsName(policy_page_name(content)))
        /\ (pc = "policy_ret" /\ IsName(policy_page_name(content))) =>
              (pc' = "done" /\ policy_fetched' = policy_fetched
               /\ result'.company_name = policy_page_name(content)) ]_vars
C8_Witness ==
    /\ Returned
    /\ Len(policy_fetched) = 2
    /\ policy_fetched = Sub(policy_urls, 1, 2)
    /\ Truthy(result.company_name)

\* C9: if the raw homepage content yields no name but its normalized text does,
\* that name is the result and no secondary URL is requested.
C9_HomepageText ==
    ( /\ Returned
      /\ homepage_content # None
      /\ ~Truthy(raw_name[homepage_content])
      /\ IsName(text_name[homepage_content]) ) =>
        /\ result.company_name = text_name[homepage_content]
        /\ policy_fetched = <<>>

\* C10: the aggregator selects a normalized form of the highest occurrence count,
\* and among the forms of that count the one observed first.
Normalized(found) == [i \in DOMAIN found |-> normalize_company_name(found[i])]
Tally(forms, v) == Cardinality({i \in DOMAIN forms : forms[i] = v})
FirstSeen(forms, v) == MinOf({i \in DOMAIN forms : forms[i] = v})
C10_MostFrequentFirstSeen ==
    (pc = "selected" /\ candidates # <<>>) =>
        LET forms == Normalized(candidates)
        IN /\ best_candidate \in Range(forms)
           /\ \A v \in Range(forms) :
                \/ Tally(forms, best_candidate) > Tally(forms, v)
                \/ /\ Tally(forms, best_candidate) = Tally(forms, v)
                   /\ FirstSeen(forms, best_candidate) <= FirstSeen(forms, v)
C10_Witness ==
    /\ pc = "selected"
    /\ Len(candidates) = 2
    /\ LET forms == Normalized(candidates)
       IN /\ forms[1] # forms[2]
          /\ Tally(forms, forms[1]) = Tally(forms, forms[2])
          /\ best_candidate = forms[1]

\* the letters of s, lower-cased, in their order
LettersOf(s) == SelectSeq(Lower(s), IsAlpha)
\* C11: for every name N and every suffix S of the recognized set, 'N S' gets the
\* normalized form of 'N' (so the two are tallied together), and a name that
\* does not end in a suffix word keeps all of its letters.
C11_SuffixInsensitive ==
    (pc = "returned" /\ fn = "_normalize_company_name") =>
        /\ \A n \in BaseNames, x \in SuffixWords :
              args[1] = n \o <<" ">> \o x => ret = normalize_company_name(n)
        /\ args[1] \in BaseNames => LettersOf(ret) = LettersOf(args[1])

\* C12: for the text '(c) 2023 Acme Widgets Ltd. All rights reserved.' the selected
\* candidate and the name returned are 'Acme Widgets Ltd', in the letter case
\* and with the legal suffix of the raw candidate.
C12_AcmeWidgets ==
    (pc = "returned" /\ fn = "extract_company_name_from_text"
       /\ args[1] = AcmeWidgetsNotice) =>
        /\ best_candidate = <<"A","c","m","e"," ","W","i","d","g","e","t","s"," ","L","t","d">>
        /\ ret = <<"A","c","m","e"," ","W","i","d","g","e","t","s"," ","L","t","d">>

\* C13: when the homepage has no match and no link and base URL + '/privacy'
\* answers 200 with 'operated by Delta Holdings Ltd', that page is the first
\* policy URL fetched and the result is 'analyzed' with the name
\* 'Delta Holdings Ltd'.
C13_DeltaFallback ==
    (/\ Returned
     /\ homepage_content = PlainPage
     /\ policy_fetched = <<homepage_url \o <<"/","p","r","i","v","a","c","y">>>>
     /\ content = DeltaPage) =>
        /\ result.status = "analyzed"
        /\ result.company_name = <<"D","e","l","t","a"," ","H","o","l","d","i","n","g","s"," ","L","t",
          "d">>

NoDuplicates(q) == \A i, j \in DOMAIN q : i # j => q[i] # q[j]
\* C14: the list of policy URLs holds no URL twice, and no policy URL is
\* fetched twice in one analysis.
C14_NoDuplicateUrls == NoDuplicates(policy_urls) /\ NoDuplicates(policy_fetched)

\* an anchor whose href holds any of the keywords of the link patterns
KeywordAnchor ==
    Cat(<< Lit(<<"<","a">>), Star(NotSet({">"})), Lit(<<"h","r","e","f","=","\"">>),
           Group(Cat(<< Star(NotSet({"\""})),
                        Alt(<< Lit(<<"p","r","i","v","a","c","y">>),
                               Lit(<<"p","o","l","i","c","y">>),
                               Lit(<<"t","e","r","m","s">>),
                               Lit(<<"i","m","p","r","i","n","t">>),
                               Lit(<<"i","m","p","r","e","s","s","u","m">>),
                               Lit(<<"l","e","g","a","l">>) >>),
                        Star(NotSet({"\""})) >>)),
           Lit(<<"\"">>), Star(NotSet({">"})), Lit(<<">">>) >>)
\* q without the later occurrences of its elements
Dedup(q) ==
    LET at == [i \in DOMAIN q |-> <<i, q[i]>>]
        kept == SelectSeq(at, LAMBDA x : \A j \in 1..(x[1] - 1) : q[j] # x[2])
    IN [i \in DOMAIN kept |-> kept[i][2]]
\* the URLs of the keyword anchors, in the order of the anchors in the document
DocumentOrder(base_url, homepage_content_) ==
    LET hrefs == FindIter(KeywordAnchor, homepage_content_)
    IN Dedup([i \in DOMAIN hrefs |-> normalize_url(base_url, hrefs[i])])
Fallbacks(base_url) ==
    [k \in DOMAIN common_policy_paths |-> normalize_url(base_url, common_policy_paths[k])]
\* C15: the Link Discoverer returns the markup matches in the order of their
\* anchors in the document, then the fallback paths, in their listed order, that
\* the markup did not give.
C15_DocumentOrder ==
    (pc = "returned" /\ fn = "find_privacy_policy_url") =>
        LET markup == DocumentOrder(args[1], args[2])
        IN Dedup(ret) = markup \o SelectSeq(Fallbacks(args[1]),
                                            LAMBDA u : u \notin Range(markup))

SchemeQualified(u) == StartsWith(u, Http) \/ StartsWith(u, Https)
\* scheme and host of a scheme-qualified URL: what stands before its path
Origin(u) ==
    LET scheme == IF StartsWith(u, Https) THEN Https ELSE Http
        after == Sub(u, Len(scheme) + 1, Len(u))
        ends == {i \in DOMAIN after : after[i] \in {"/", "?", "#"}}
    IN scheme \o (IF ends = {} THEN after ELSE Sub(after, 1, MinOf(ends) - 1))
\* a URL without query and fragment, ending in one slash
Directory(u) ==
    LET path == SplitFirst(SplitFirst(u, "#"), "?")
    IN IF EndsWith(path, <<"/">>) THEN path ELSE path \o <<"/">>
\* C16: a scheme-qualified href is returned unchanged; a root-relative href
\* replaces the path of the base URL; any other href is appended to the base
\* path, after exactly one slash; resolving a resolved URL again changes nothing.
C16_UrlResolution ==
    fn = "normalize_url" =>
        /\ pc = "returned" =>
              IF SchemeQualified(args[2]) THEN ret = args[2]
              ELSE IF StartsWith(args[2], <<"/">>) THEN ret = Origin(args[1]) \o args[2]
              ELSE ret = Directory(args[1]) \o args[2]
        /\ pc = "returned_again" => ret = args[2]

\* C17: cleaning a cleaned name returns it unchanged.
C17_CleanIdempotent ==
    (pc = "returned_again" /\ fn = "_clean_company_name") => ret = args[1]

\* the words of s: its longest parts without a space
Words(s) ==
    {Sub(s, p[1], p[2]) :
        p \in {q \in (DOMAIN s) \X (DOMAIN s) :
                  /\ q[1] <= q[2]
                  /\ \A i \in q[1]..q[2] : s[i] # " "
                  /\ (q[1] = 1 \/ s[q[1] - 1] = " ")
                  /\ (q[2] = Len(s) \/ s[q[2] + 1] = " ")}}
\* the boilerplate phrases of one word, lower-cased
BoilerplateWords ==
    {Lower(cleanup_phrases[k]) : k \in {j \in DOMAIN cleanup_phrases :
                                          " " \notin Range(cleanup_phrases[j])}}
\* a word of letters of which a boilerplate word is only a part
LongerWord(w) ==
    /\ \A i \in DOMAIN w : IsAlpha(w[i])
    /\ \E b \in BoilerplateWords : Contains(Lower(w), b) /\ Lower(w) # b
\* C18: a word of the name that only contains a boilerplate word as a part of it
\* is a word of the cleaned name.
C18_WholeWordsOnly ==
    (pc = "returned" /\ fn = "_clean_company_name") =>
        \A w \in Words(args[1]) : LongerWord(w) => w \in Words(ret)

\* the name contains a boilerplate phrase of the validation, in any letter case
HasBoilerplate(name) == \E k \in DOMAIN suspicious : Contains(Lower(name), suspicious[k])
\* C19: validation rejects every candidate of fewer than 30 characters that
\* contains a boilerplate phrase, in any letter case, and no such candidate
\* ('Privacy Policy' among them) is in the list of candidates of an extraction.
C19_BoilerplateRejected ==
    /\ (/\ pc = "returned" /\ fn = "_validate_company_name"
        /\ Len(args[1]) < SuspiciousMaxLen /\ HasBoilerplate(args[1])) => ret = FALSE
    /\ (pc = "returned" /\ fn = "extract_company_name_from_text") =>
          \A i \in DOMAIN candidates :
              ~(Len(candidates[i]) < SuspiciousMaxLen /\ HasBoilerplate(candidates[i]))
\* the copyright rule without a legal suffix matched 'Privacy Policy', and the
\* extraction has no candidate
C19_Witness ==
    /\ pc = "returned" /\ fn = "extract_company_name_from_text"
    /\ args[1] = PrivacyPolicyNotice
    /\ \E k \in DOMAIN company_patterns :
          FindIter(company_patterns[k], args[1]) = <<<<"P","r","i","v","a","c","y"," ","P","o","l","i","c","y">>>>
    /\ candidates = <<>>
    /\ ret = None

\* C20: the text of a text is that text, and a text has no whitespace at its
\* ends and no two whitespace characters in a row.
C20_TextIdempotent ==
    fn = "extract_text_from_html" =>
        /\ pc \in {"returned", "returned_again"} =>
              /\ ret = <<>> \/ (ret[1] \notin Space /\ ret[Len(ret)] \notin Space)
              /\ \A i \in 1..(Len(ret) - 1) : ~(ret[i] \in Space /\ ret[i + 1] \in Space)
        /\ pc = "returned_again" => ret = args[1]

\* C22: whatever the network does and whatever the pages hold, no exception
\* leaves extract_company_name.
C22_NoFaultEscapes == pc # "raised"

\* C28: an extraction returns None only when no candidate passed validation, and
\* returns a name when a validated candidate has a normalized form that is not
\* empty.
C28_NameWhenCandidate ==
    (pc = "returned" /\ fn = "extract_company_name_from_text") =>
        /\ ret = None => candidates = <<>>
        /\ (\E i \in DOMAIN candidates : normalize_company_name(candidates[i]) # <<>>)
              => Truthy(ret)

\* C30: a call of fetch_url issues at most max_retries GET requests, no URL is
\* passed to fetch_url twice in one analysis, and nothing is done once the
\* result is returned.
C30_BoundedRequests ==
    [][ /\ attempt' <= max_retries
        /\ NoDuplicates(home_fetched')
        /\ NoDuplicates(policy_fetched')
        /\ pc # "done" ]_vars

\* the batch is over: the function returned, or its last save raised
BatchOver == pc \in {"finished", "save_raised", "summary_raised"}

\* C21: a batch is never aborted because one domain fails.  When the exception
\* of a domain was caught, an error entry is reported for that domain and the
\* loop goes on with the next domain of the list; and when the batch is over,
\* every domain of the list was processed, in order, and results holds an entry
\* with a status for each of them.
C21_BatchContinues ==
    [][ /\ pc = "batch_except" =>
              /\ results' = Append(results, ErrorEntry(domains[di]))
              /\ di < Len(domains) => (pc' = "batch_extract" /\ di' = di + 1)
        /\ BatchOver' =>
              /\ processed' = domains
              /\ \A k \in DOMAIN domains :
                    \E j \in DOMAIN results' :
                        /\ results'[j].domain = domains[k]
                        /\ results'[j].status \in {Analyzed, Error}
      ]_vars

\* C21, witness: a batch of several domains came to its end after the
\* extraction of its first domain had raised
C21_Witness ==
    /\ pc = "finished"
    /\ Len(domains) >= 2
    /\ results[1] = ErrorEntry(domains[1])
    /\ processed = domains

\* C23: the domains of a batch are processed one after another in the order of
\* the list, no delay is made after the last domain, and, when the batch is
\* over, a delay was made after every domain but the last.
C23_DelayBetweenDomains ==
    /\ IsPrefix(processed, domains)
    /\ \A k \in DOMAIN slept : slept[k] < Len(domains)
    /\ BatchOver => slept = [k \in 1..(Len(domains) - 1) |-> k]

\* C27: when extract_from_domains or test_extraction returns, results holds
\* exactly one entry for each input domain, in the order of the input, and the
\* three counts of the summary add up to the number of input domains.
C27_OneEntryPerDomain ==
    (tool \in {"extract_from_domains", "test_extraction"} /\ pc = "finished") =>
        /\ [k \in DOMAIN results |-> results[k].domain] = domains
        /\ success_count + not_found_count + error_count = Len(domains)

\* the operation of thread t has returned
HasReturned(t, name) == tpc[t] = "returned" /\ op[t].name = name
\* the records the store held when the operation of thread t began
PriorValues(t) == [k \in DOMAIN prior[t].cache |-> prior[t].heap[prior[t].cache[k]]]
\* no two records of the store have the same domain
NoDuplicateDomains ==
    \A i, j \in DOMAIN domains_cache :
        i # j => heap[domains_cache[i]].domain # heap[domains_cache[j]].domain

\* C24: with calls made one at a time, no two records of the store have the
\* same domain; add_domain of a domain that is stored returns False and leaves
\* the list and the records of the store as they were; and after delete_domain
\* returned True, get_domain of the same domain returns None.
C24_KeyedByDomain ==
    /\ NoDuplicateDomains
    /\ \A t \in Threads :
          /\ (/\ HasReturned(t, "add_domain")
              /\ \E k \in DOMAIN PriorValues(t) :
                    PriorValues(t)[k].domain = op[t].domain)
                => /\ tret[t] = False
                   /\ domains_cache = prior[t].cache
                   /\ heap = prior[t].heap
          /\ (HasReturned(t, "delete_domain") /\ tret[t] = True)
                => get_domain(op[t].domain) = NoRef

\* C24, witness: add_domain returned False for a domain that an earlier call
\* had added to the store
C24_Witness ==
    /\ HasReturned(1, "add_domain")
    /\ op[1].domain = NewDomain
    /\ tret[1] = False
    /\ get_domain(NewDomain) # NoRef

\* the records of the store after one operation ran alone on the records s
SerialAdd(s, d) ==
    IF \E k \in DOMAIN s : s[k].domain = d THEN s
    ELSE Append(s, Record(d, Pending, None, None, Now))
SerialUpdate(s, o) ==
    LET hits == {k \in DOMAIN s : s[k].domain = o.domain}
    IN IF hits = {} THEN s ELSE [s EXCEPT ![MinOf(hits)] = Updated(@, o)]
SerialDelete(s, d) ==
    LET Kept(r) == r.domain # d
    IN SelectSeq(s, Kept)
Serial(s, o) ==
    CASE o.name = "add_domain" -> SerialAdd(s, o.domain)
      [] o.name = "update_domain" -> SerialUpdate(s, o)
      [] o.name = "delete_domain" -> SerialDelete(s, o.domain)
      [] o.name = "analyze_domain_real" -> SerialUpdate(SerialAdd(s, o.domain), o)

\* C25: when two threads have each run one of add_domain, update_domain and
\* delete_domain on the initial store, with their steps interleaved in any way,
\* the records of the store are those that the two operations leave when one
\* runs after the other, in one of the two orders.
C25_Serializable ==
    ( /\ nops = Cardinality(Threads)
      /\ \A t \in Threads :
            /\ tpc[t] = "returned"
            /\ op[t].name \in {"add_domain", "update_domain", "delete_domain"} )
      => ValuesOf(domains_cache) \in
            { Serial(Serial(INITIAL_DOMAINS, op[1]), op[2]),
              Serial(Serial(INITIAL_DOMAINS, op[2]), op[1]) }

\* C26: after the handler of GET /api/analyze/<domain> returned the result of
\* the analysis, the store holds a record of the domain whose status and
\* company_name are those of the result.
C26_StoredEqualsReturned ==
    \A t \in Threads :
        (HasReturned(t, "analyze_domain_real") /\ tret[t] = True) =>
            /\ get_domain(op[t].domain) # NoRef
            /\ heap[get_domain(op[t].domain)].status = op[t].status
            /\ heap[get_domain(op[t].domain)].company_name = op[t].company_name

\* C29: after update_domain returned, the dicts of INITIAL_DOMAINS hold what the
\* module text gives them, a list or dict a caller got from the store earlier
\* holds what it held when it was returned, and the records of the other
\* domains are as they were; when it returned False, the list and the records
\* of the store are as they were.
C29_UpdateFrame ==
    \A t \in Threads :
        HasReturned(t, "update_domain") =>
            /\ Sub(heap, 1, Len(INITIAL_DOMAINS)) = INITIAL_DOMAINS
            /\ ValuesOf(snapshot) = snapshot_seen
            /\ \A ref \in DOMAIN prior[t].heap :
                  heap[ref].domain # op[t].domain => heap[ref] = prior[t].heap[ref]
            /\ tret[t] = False =>
                  (domains_cache = prior[t].cache /\ heap = prior[t].heap)

\* an operation of a caller that makes its calls one at a time leaves the
\* records Serial gives
SerialAgrees ==
    \A t \in Threads :
        tpc[t] = "returned" => ValuesOf(domains_cache) = Serial(PriorValues(t), op[t])

=============================================================================
